---- MODULE Spec2Model ----
(***************************************************************************)
(* A model of the BAR-to-ABAR conversion proof of zei and of the algebra   *)
(* helpers it rests on: Pippenger multi-exponentiation and the decoding of *)
(* group elements.                                                         *)
(*                                                                         *)
(* Scale.  TLC computes with 32-bit integers, so the two scalar fields and *)
(* the bit widths of the program are scaled down.  The relations between   *)
(* them that the code relies on are kept:                                  *)
(*                                                                         *)
(*                              program              model                 *)
(*   amount bits                64                   AMOUNT_BITS = 4       *)
(*   asset type bits            240                  TYPE_BITS = 12        *)
(*   source scalar field q_S    253 bits             QS = 8191 (13 bits)   *)
(*   five limbs                 215 bits             15 bits               *)
(*   circuit scalar field q_C   255 bits             QC = 32771 (16 bits)  *)
(*   six limbs                  258 bits             18 bits               *)
(*                                                                         *)
(*   2^AMOUNT_BITS <= 2^TYPE_BITS < QS < 2^(5*BIT_PER_LIMB) < QC           *)
(*   QC < 2^(NUM_OF_LIMBS*BIT_PER_LIMB) >= 4 * 2^bit_length(QS)            *)
(***************************************************************************)
EXTENDS Integers, Sequences, FiniteSets, TLC

(***************************************************************************)
(* The groups.  A group of prime order QS is modelled by Z_QS written      *)
(* additively: the point k is k times the base point.                      *)
(***************************************************************************)
\* Order of the source group and of its scalar field (RistrettoScalar), scaled.
QS == 8191

Points == 0..(QS - 1)
Scalars == 0..(QS - 1)

get_identity == 0
get_base == 1
GAdd(p, q) == (p + q) % QS
GSub(p, q) == (p - q + QS) % QS
GMul(p, s) == (p * s) % QS
SAdd(a, b) == (a + b) % QS

\* A product of the integers, not reduced into the field.
SMul_unreduced(a, b) == a * b

\* RistrettoScalar::mul
SMul(a, b) == (a * b) % QS

Pow2(n) == 2 ^ n

(***************************************************************************)
(* Multi-exponentiation (multi_exp.rs)                                     *)
(***************************************************************************)
VARIABLES
    scalars,        \* pippenger's argument scalars
    elems,          \* pippenger's argument elems
    overflow_checks,\* whether the build checks integer overflow (debug) or wraps (release)
    mpc,            \* position in pippenger: "start", "cols", "done", "panic"
    digits_vec,     \* the signed digits of every scalar
    index,          \* the digit position the next column is computed for
    buckets,        \* the buckets after the last column computed
    col,            \* the last column computed
    total,          \* the fold's running total
    naive           \* naive_multi_exp of the same arguments

mvars == <<scalars, elems, overflow_checks, mpc, digits_vec, index, buckets, col, total, naive>>

VARIABLES
    open_record,\* the opened source record (OpenAssetRecord)
    keys,       \* [bar_keypair, abar_keypair, dec_key]
    xpc,        \* "init", "generated" (a note exists), "failed" (the prover failed)
    draw,       \* the prng's draws the note was generated with
    gen_err,    \* what gen_bar_to_abar_note returned: "none" yet, "Ok" or the error
    xfr_note,   \* the note (BarToAbarNote), as it stands after any change
    cs_witness, \* the witness the prover extracted from the constraint system
    changed,    \* [body, signature]: what was changed in the note after its generation
    verify,     \* the verifier: [pc, mode, key, com_amount, com_asset_type, beta, lambda,
                \*                online_inputs, result, calls]
    cstest,     \* the constraint check of the tests: [slot, online_inputs, cs_ok, eq_result]
    opened      \* the opening of the output: [by, dec, err, oabar]

xvars ==
    <<open_record, keys, xpc, draw, gen_err, xfr_note, cs_witness, changed, verify, cstest,
      opened>>

VARIABLES
    dpc,        \* "start", or "done" after a decoding
    dbytes,     \* the bytes handed to the decoder
    dpath,      \* the decoding function called
    dresult     \* what it returned: [err, point]

dvars == <<dpc, dbytes, dpath, dresult>>

VARIABLES
    cs_args,    \* the arguments build_bar_to_abar_cs is called with
    cs_pc,      \* "start", "built", "inputs", "checked"
    cs_built,   \* [witness, compressed_limbs, shape]: what build_bar_to_abar_cs computed
    cs_inputs,  \* [z, online_inputs]: what is computed outside the constraint system
    cs_verdict  \* what cs.verify_witness found, constraint group by constraint group

cvars == <<cs_args, cs_pc, cs_built, cs_inputs, cs_verdict>>

VARIABLES
    pk_limbs,   \* six limb values a prover may assign to a SimFrVar
    pk_pc,      \* "start", "packed", "repacked"
    pk_out      \* [chunk5, chunk4, repacked, bounded_64, bounded_240]

pvars == <<pk_limbs, pk_pc, pk_out>>

vars == <<mvars, xvars, dvars, cvars, pvars>>

Min(a, b) == IF a < b THEN a ELSE b

\* TLC evaluates a loop as a recursion and its stack holds a few hundred levels,
\* so a loop over a list runs in blocks: BlockEnd(j, n) is the last position of
\* the block that starts at j.
BlockEnd(j, n) == Min(j + 31, n)

\* for (s, p) in scalars.zip(points) { r = r.add(&p.mul(s)) }, positions j..hi
RECURSIVE NaiveBlock(_, _, _, _, _)
NaiveBlock(ss, ps, j, hi, r) ==
    IF j > hi THEN r
    ELSE NaiveBlock(ss, ps, j + 1, hi, GAdd(r, GMul(ps[j], ss[j])))

RECURSIVE NaiveFrom(_, _, _, _)
NaiveFrom(ss, ps, j, r) ==
    LET n == Min(Len(ss), Len(ps))
    IN  IF j > n THEN r
        ELSE LET r2 == NaiveBlock(ss, ps, j, BlockEnd(j, n), r)
             IN  IF r2 \in Points THEN NaiveFrom(ss, ps, BlockEnd(j, n) + 1, r2) ELSE r2

naive_multi_exp(ss, ps) == NaiveFrom(ss, ps, 1, get_identity)

\* let w = if size < 500 { 6 } else if size < 800 { 7 } else { 8 };
WindowSize(size) == IF size < 500 THEN 6 ELSE IF size < 800 THEN 7 ELSE 8

\* Signed radix-2^w digits, least significant first: each window is recentred
\* from [0, 2^w) to [-2^(w-1), 2^(w-1)) with a carry into the next window; the
\* digits are stored as i8.
RECURSIVE RadixFrom(_, _, _)
RadixFrom(n, carry, w) ==
    LET coef == carry + (n % Pow2(w))
        c2 == (coef + Pow2(w - 1)) \div Pow2(w)
        digit == coef - c2 * Pow2(w)
        rest == n \div Pow2(w)
    IN  IF rest = 0 /\ c2 = 0 THEN <<digit>>
        ELSE <<digit>> \o RadixFrom(rest, c2, w)

scalar_to_radix_2_power_w(s, w) == RadixFrom(s, 0, w)

\* The largest digits.len(): for digits in digits_vec.iter() { if digits.len() >
\* digits_count { digits_count = digits.len() } }
DigitsCount(dv) ==
    IF Len(dv) = 0 THEN 0
    ELSE CHOOSE c \in {Len(dv[j]) : j \in 1..Len(dv)} :
            \A j \in 1..Len(dv) : Len(dv[j]) <= c

\* (0..two_power_w / 2).map(|_| G::get_identity())
InitBuckets(w) == [b \in 0..(Pow2(w) \div 2 - 1) |-> get_identity]

I8_MIN == -128

\* -digit in i8: the one value whose negation overflows is i8::MIN; a build with
\* overflow checks panics there, one without wraps to i8::MIN again.
NegOverflows(digit) == digit = I8_MIN

\* (-digit - 1) as usize, in a build that wraps: -(-128) = -128, -128 - 1 = 127.
NegIndex(digit) == IF digit = I8_MIN THEN 127 ELSE -digit - 1

\* `for (digits, elem) in digits_vec.iter().zip(elems)` at digit position idx
\* (0-based), pairs j..hi.  The result is [panic, bk]: the buckets, or a panic
\* when an index computation overflows in a checked build or the index is out
\* of the buckets' bounds.
Panicked(bk) == [panic |-> TRUE, bk |-> bk]
Went(bk) == [panic |-> FALSE, bk |-> bk]

RECURSIVE AccumulateBlock(_, _, _, _, _, _, _)
AccumulateBlock(bk, dv, es, idx, j, hi, checks) ==
    IF j > hi THEN Went(bk)
    ELSE IF idx >= Len(dv[j]) THEN AccumulateBlock(bk, dv, es, idx, j + 1, hi, checks)
    ELSE LET digit == dv[j][idx + 1]
         IN  IF digit > 0
             THEN LET b_index == digit - 1
                  IN  IF b_index \notin DOMAIN bk THEN Panicked(bk)
                      ELSE AccumulateBlock([bk EXCEPT ![b_index] = GAdd(bk[b_index], es[j])],
                                           dv, es, idx, j + 1, hi, checks)
             ELSE IF digit < 0
             THEN IF checks /\ NegOverflows(digit) THEN Panicked(bk)
                  ELSE LET b_index == NegIndex(digit)
                       IN  IF b_index \notin DOMAIN bk THEN Panicked(bk)
                           ELSE AccumulateBlock([bk EXCEPT ![b_index] = GSub(bk[b_index], es[j])],
                                                dv, es, idx, j + 1, hi, checks)
             ELSE AccumulateBlock(bk, dv, es, idx, j + 1, hi, checks)

RECURSIVE Accumulate(_, _, _, _, _, _)
Accumulate(bk, dv, es, idx, j, checks) ==
    LET n == Min(Len(dv), Len(es))
    IN  IF j > n THEN Went(bk)
        ELSE LET r == AccumulateBlock(bk, dv, es, idx, j, BlockEnd(j, n), checks)
             IN  IF r.panic THEN r
                 ELSE Accumulate(r.bk, dv, es, idx, BlockEnd(j, n) + 1, checks)

\* A fold that adds up the buckets, each once.
RECURSIVE FoldBlock_plain_sum(_, _, _, _)
FoldBlock_plain_sum(bk, i, lo, acc) ==
    IF i < lo THEN acc
    ELSE FoldBlock_plain_sum(bk, i - 1, lo, <<GAdd(acc[1], bk[i]), GAdd(acc[2], bk[i])>>)

\* for i in (0..buckets.len() - 1).rev() { intermediate_sum += buckets[i];
\* sum += intermediate_sum }, positions i down to lo; the result is the pair
\* <<intermediate_sum, sum>>.
RECURSIVE FoldBlock(_, _, _, _)
FoldBlock(bk, i, lo, acc) ==
    IF i < lo THEN acc
    ELSE LET is2 == GAdd(acc[1], bk[i])
         IN  FoldBlock(bk, i - 1, lo, <<is2, GAdd(acc[2], is2)>>)

RECURSIVE FoldBuckets(_, _, _)
FoldBuckets(bk, i, acc) ==
    IF i < 0 THEN acc
    ELSE LET lo == IF i - 31 < 0 THEN 0 ELSE i - 31
             acc2 == FoldBlock(bk, i, lo, acc)
         IN  IF acc2[1] \in Points THEN FoldBuckets(bk, lo - 1, acc2) ELSE acc2

\* let mut intermediate_sum = buckets[buckets.len() - 1].clone(); let mut sum = the same
ColumnSum(bk) ==
    LET last == Cardinality(DOMAIN bk) - 1
    IN  FoldBuckets(bk, last - 1, <<bk[last], bk[last]>>)[2]

MaxLen == 2
SampleScalars == {0, 1, 2, 32, 128, 1000, 6000}
SampleElems == {1, 2, 500}
BigSizes == {500, 800}

SeqsUpTo(S, n) == UNION {[1..k -> S] : k \in 0..n}

\* A list of the given size: `first` followed by copies of `fill`.
Padded(first, fill, size) == [i \in 1..size |-> IF i = 1 THEN first ELSE fill]

MInit ==
    /\ \/ /\ scalars \in SeqsUpTo(SampleScalars, MaxLen)
          /\ elems \in SeqsUpTo(SampleElems, MaxLen)
       \/ \E size \in BigSizes, s \in SampleScalars, p \in SampleElems :
            /\ scalars = Padded(s, 1, size)
            /\ elems = Padded(p, get_base, size)
    /\ overflow_checks \in BOOLEAN
    /\ mpc = "start"
    /\ digits_vec = <<>>
    /\ index = 0
    /\ buckets = <<>>
    /\ col = get_identity
    /\ total = get_identity
    /\ naive = naive_multi_exp(scalars, elems)

\* pippenger up to `cols.next().unwrap()`: the digits, digits_count, the buckets,
\* and the first (most significant) column; the unwrap panics when there is no
\* column at all.
PippengerStart ==
    /\ mpc = "start"
    /\ LET w == WindowSize(Len(scalars))
           dv == [j \in 1..Len(scalars) |-> scalar_to_radix_2_power_w(scalars[j], w)]
           digits_count == DigitsCount(dv)
       IN  /\ digits_vec' = dv
           /\ IF digits_count = 0
              THEN /\ mpc' = "panic"
                   /\ UNCHANGED <<index, buckets, col, total>>
              ELSE LET bk == Accumulate(InitBuckets(w), dv, elems, digits_count - 1, 1,
                                        overflow_checks)
                   IN  IF bk.panic
                       THEN /\ mpc' = "panic"
                            /\ UNCHANGED <<index, buckets, col, total>>
                       ELSE /\ buckets' = bk.bk
                            /\ col' = ColumnSum(bk.bk)
                            /\ total' = ColumnSum(bk.bk)
                            /\ index' = digits_count - 1
                            /\ mpc' = IF digits_count = 1 THEN "done" ELSE "cols"
    /\ UNCHANGED <<scalars, elems, overflow_checks, naive, xvars, dvars, cvars, pvars>>

\* One step of cols.fold(hi_col, |total, p| total.mul(&two_power_w_int).add(&p)):
\* the next column is computed (buckets emptied first) and folded in.
PippengerColumn ==
    /\ mpc = "cols"
    /\ index > 0
    /\ LET w == WindowSize(Len(scalars))
           bk == Accumulate(InitBuckets(w), digits_vec, elems, index - 1, 1, overflow_checks)
       IN  IF bk.panic
           THEN /\ mpc' = "panic"
                /\ UNCHANGED <<index, buckets, col, total>>
           ELSE /\ buckets' = bk.bk
                /\ col' = ColumnSum(bk.bk)
                /\ total' = GAdd(GMul(total, Pow2(w) % QS), ColumnSum(bk.bk))
                /\ index' = index - 1
                /\ mpc' = IF index - 1 = 0 THEN "done" ELSE "cols"
    /\ UNCHANGED <<scalars, elems, overflow_checks, digits_vec, naive, xvars, dvars, cvars, pvars>>

(***************************************************************************)
(* Primitives the conversion proof is built from.  Their code is outside   *)
(* the files modelled here (zei_algebra, zei_crypto, zei_plonk); they are  *)
(* modelled from their interfaces as the specification states them.        *)
(***************************************************************************)
\* Order of the circuit scalar field (BLSScalar), scaled.
QC == 32771

\* field_simulation::{BIT_PER_LIMB, NUM_OF_LIMBS}: 43 and 6 in the program.
BIT_PER_LIMB == 3
NUM_OF_LIMBS == 6

\* The literals 64 and 240 of build_bar_to_abar_cs, and the 32 of TWO_POW_32.
AMOUNT_BITS == 4
TYPE_BITS == 12
HALF_BITS == 2

\* pub const TWO_POW_32: u64 = 1 << 32;
TWO_POW_32 == Pow2(HALF_BITS)

CScalars == 0..(QC - 1)
CAdd(a, b) == (a + b) % QC
CMul(a, b) == (a * b) % QC

\* BLSScalar::from(&BigUint::from_bytes_le(&s.to_bytes())): the scalar's canonical
\* integer, reduced into the circuit field.
ToBLS(s) == s % QC

\* RistrettoScalar::from(n) for an unsigned integer n.
ScalarFrom(n) == n % QS

\* The Rescue permutation on four circuit-field elements (four outputs).
RescueMix(st, i) ==
    LET t == (st[1] + 3 * st[2] + 5 * st[3] + 7 * st[4] + 11 * i) % QC
        cube == CMul(CMul(t, t), t)
    IN  (cube + CMul(st[1], st[2]) + CMul(st[3], st[4]) + st[((i + 1) % 4) + 1]) % QC

rescue(st) == [i \in 1..4 |-> RescueMix(st, i)]

\* The second generator of the Pedersen commitment, as a multiple of the base.
PedersenH == 3001

\* RistrettoPedersenCommitment::commit(m, r) = m*G + r*H
commit(m, r) == GAdd(GMul(get_base, m), GMul(PedersenH, r))

\* CompressedRistretto: the 32 bytes of a point.  An encoding is read as a
\* number; the even numbers below 2*QS encode points, every other one is no
\* encoding of a point.
None == -1
compress(p) == 2 * p
ValidEncoding(bytes) == bytes % 2 = 0 /\ bytes >= 0 /\ bytes \div 2 < QS
decompress(bytes) == IF ValidEncoding(bytes) THEN bytes \div 2 ELSE None

\* SimFr::from(&BigUint): NUM_OF_LIMBS limbs of BIT_PER_LIMB bits, least
\* significant first.
SimFrFrom(n) ==
    [i \in 1..NUM_OF_LIMBS |-> (n \div Pow2(BIT_PER_LIMB * (i - 1))) % Pow2(BIT_PER_LIMB)]

\* The integer a limb vector stands for.
RECURSIVE LimbSum(_, _)
LimbSum(limbs, i) ==
    IF i > Len(limbs) THEN 0
    ELSE limbs[i] * Pow2(BIT_PER_LIMB * (i - 1)) + LimbSum(limbs, i + 1)

SimFrValue(limbs) == LimbSum(limbs, 1)

\* AssetType::as_scalar: the asset type's bytes read as a little-endian number.
AsScalarS(asset_type) == asset_type % QS
AsScalarC(asset_type) == asset_type % QC

\* u64_to_u32_pair
u64_to_u32_pair(amount) == <<amount % TWO_POW_32, amount \div TWO_POW_32>>

\* AXfrPubKey of a key pair, and the x coordinate of its point.
AXfrPubKeyOf(keypair) == (keypair * 7919 + 13) % QS
PubKeyX(pub_key) == (pub_key * 5 + 2) % QC

\* XfrKeyPair: the public key of a key pair; a signature names the key that
\* made it and the message it was made over.
XfrPubKeyOf(keypair) == keypair + 100
sign(keypair, msg) == [signer |-> XfrPubKeyOf(keypair), msg |-> msg]
sig_verify(pub_key, msg, signature) ==
    signature.signer = pub_key /\ signature.msg = msg

\* Hybrid encryption of the owner memo: only the matching secret key opens it.
XPublicKeyOf(dec_key) == dec_key + 200
hybrid_encrypt(enc_key, plain) == [to |-> enc_key, plain |-> plain]
hybrid_decrypt(dec_key, memo) ==
    IF memo.to = XPublicKeyOf(dec_key) THEN [ok |-> TRUE, plain |-> memo.plain]
    ELSE [ok |-> FALSE, plain |-> <<>>]

\* The ABAR commitment of an opening (AnonBlindAssetRecord::from_oabar):
\* z = Rescue(Rescue(blind, amount, asset_type, 0)[0], pubkey_x, 0, 0)[0]
AbarCommitment(blind, amount, asset_type, pubkey_x) ==
    LET cur == rescue(<<blind, amount % QC, AsScalarC(asset_type), 0>>)[1]
    IN  rescue(<<cur, pubkey_x, 0, 0>>)[1]

\* OpenAnonBlindAssetRecordBuilder::new().amount().asset_type().pub_key()
\*     .finalize(prng, enc_key).build(): the blind comes from the prng, the
\* owner memo encrypts (amount, asset type, blind) to enc_key.
OabarBuild(amount, asset_type, pub_key, enc_key, blind) ==
    [amount |-> amount, asset_type |-> asset_type, blind |-> blind, pub_key |-> pub_key,
     owner_memo |-> hybrid_encrypt(enc_key, <<amount, asset_type, blind>>)]

from_oabar(oabar) ==
    [commitment |-> AbarCommitment(oabar.blind, oabar.amount, oabar.asset_type,
                                   PubKeyX(oabar.pub_key))]

\* OpenAnonBlindAssetRecordBuilder::from_abar(abar, memo, keypair, dec_key).build():
\* decrypts the memo and checks the opening against the record's commitment;
\* [err, oabar].
NoOabar == [amount |-> None, asset_type |-> None, blind |-> None, pub_key |-> None]
from_abar(abar, memo, keypair, dec_key) ==
    LET dec == hybrid_decrypt(dec_key, memo)
        plain == dec.plain
    IN  IF ~dec.ok THEN [err |-> "DecryptionError", oabar |-> NoOabar]
        ELSE IF AbarCommitment(plain[3], plain[1], plain[2], PubKeyX(AXfrPubKeyOf(keypair)))
                    # abar.commitment
        THEN [err |-> "InconsistentStructureError", oabar |-> NoOabar]
        ELSE [err |-> "Ok",
              oabar |-> [amount |-> plain[1], asset_type |-> plain[2], blind |-> plain[3],
                         pub_key |-> AXfrPubKeyOf(keypair)]]

\* The five packed values of the 24 limbs of x, y, a, b: all_limbs.chunks(5),
\* each chunk summed with weights 2^(BIT_PER_LIMB * i).
Chunk(all, k) == SubSeq(all, 5 * (k - 1) + 1, Min(5 * k, Len(all)))
compressed_limbs(all) == [k \in 1..5 |-> SimFrValue(Chunk(all, k)) % QC]

\* The commitment to the non-ZK state:
\* Rescue(Rescue(L_0, L_1, L_2, L_3)[0], L_4, r, 0)[0]
NonZkCommitment(x, y, a, b, r) ==
    LET L == compressed_limbs(SimFrFrom(x) \o SimFrFrom(y) \o SimFrFrom(a) \o SimFrFrom(b))
        h1 == rescue(<<L[1], L[2], L[3], L[4]>>)[1]
    IN  rescue(<<h1, L[5], r, 0>>)[1]

\* The transcript's challenges: scalars of the source field drawn from what the
\* transcript has absorbed.
Challenge(items, label) ==
    LET RECURSIVE Absorb(_, _)
        Absorb(i, acc) ==
            IF i > Len(items) THEN acc
            ELSE Absorb(i + 1, (acc * 31 + items[i] + i) % QS)
    IN  Absorb(1, label)

\* prove_delegated_chaum_pedersen: the sigma protocol's prover.  rnd holds the
\* prover's draws a, b (nonces), c, d (their blinds) and r (Rescue blind).
prove_delegated_chaum_pedersen(rnd, x, gamma, y, delta, point_p, point_q, z) ==
    LET point_r == commit(rnd.a, rnd.c)
        point_s == commit(rnd.b, rnd.d)
        comm == NonZkCommitment(x, y, rnd.a, rnd.b, rnd.r)
        beta == Challenge(<<point_p, point_q, z, comm>>, 1)
        lambda == Challenge(<<point_p, point_q, z, comm, point_r, point_s, beta>>, 2)
    IN  [proof |-> [non_zk_part_state_commitment |-> comm,
                    point_r |-> point_r, point_s |-> point_s,
                    s_1 |-> SAdd(SMul(beta, x), rnd.a),
                    s_2 |-> SAdd(SMul(beta, y), rnd.b),
                    s_3 |-> SAdd(SMul(beta, gamma), rnd.c),
                    s_4 |-> SAdd(SMul(beta, delta), rnd.d)],
         non_zk_state |-> [x |-> x, y |-> y, a |-> rnd.a, b |-> rnd.b, r |-> rnd.r],
         beta |-> beta, lambda |-> lambda]

\* verify_delegated_chaum_pedersen: re-derives the challenges and checks the
\* group side of the sigma equations; [ok, beta, lambda].
verify_delegated_chaum_pedersen(point_p, point_q, z, proof) ==
    LET comm == proof.non_zk_part_state_commitment
        beta == Challenge(<<point_p, point_q, z, comm>>, 1)
        lambda == Challenge(<<point_p, point_q, z, comm, proof.point_r, proof.point_s, beta>>, 2)
    IN  [ok |-> /\ GAdd(GMul(point_p, beta), proof.point_r) = commit(proof.s_1, proof.s_3)
                /\ GAdd(GMul(point_q, beta), proof.point_s) = commit(proof.s_2, proof.s_4),
         beta |-> beta, lambda |-> lambda]

(***************************************************************************)
(* The constraint system (build_bar_to_abar_cs).  The system's gates do    *)
(* not depend on the values; what build_bar_to_abar_cs computes from its   *)
(* arguments is the witness: a value for every variable.                   *)
(***************************************************************************)
\* cs.linear_combine(&[v1, v2, v3, v4], c1, c2, c3, c4): the new variable's value
linear_combine(v, c1, c2, c3, c4) ==
    (CMul(v[1], c1 % QC) + CMul(v[2], c2 % QC) + CMul(v[3], c3 % QC) + CMul(v[4], c4 % QC)) % QC

step_1 == Pow2(BIT_PER_LIMB)
step_2 == Pow2(BIT_PER_LIMB * 2)
step_3 == Pow2(BIT_PER_LIMB * 3)
step_4 == Pow2(BIT_PER_LIMB * 4)
step_5 == Pow2(BIT_PER_LIMB * 5)

\* limbs_var.get(i).unwrap_or(&zero_var)
GetOrZero(limbs, i) == IF i <= Len(limbs) THEN limbs[i] ELSE 0

\* A packing that weights the fifth limb of a chunk by step_5: its sums reach
\* the order of the circuit field.
CompressedLimbVar_fifth_at_step_5(limbs) ==
    LET sum_var == linear_combine(<<GetOrZero(limbs, 1), GetOrZero(limbs, 2),
                                    GetOrZero(limbs, 3), GetOrZero(limbs, 4)>>,
                                  1, step_1, step_2, step_3)
    IN  IF Len(limbs) = 5
        THEN linear_combine(<<sum_var, GetOrZero(limbs, 5), 0, 0>>, 1, step_5, 0, 0)
        ELSE sum_var

\* A packing that stops after the 4-way linear_combine.
CompressedLimbVar_four_way(limbs) ==
    linear_combine(<<GetOrZero(limbs, 1), GetOrZero(limbs, 2), GetOrZero(limbs, 3),
                     GetOrZero(limbs, 4)>>,
                   1, step_1, step_2, step_3)

\* One round of the loop over all_limbs_var.chunks(5): a 4-way linear_combine,
\* and a second one folding in the fifth limb when the chunk has five.
CompressedLimbVar(limbs) ==
    LET sum_var == linear_combine(<<GetOrZero(limbs, 1), GetOrZero(limbs, 2),
                                    GetOrZero(limbs, 3), GetOrZero(limbs, 4)>>,
                                  1, step_1, step_2, step_3)
    IN  IF Len(limbs) = 5
        THEN linear_combine(<<sum_var, GetOrZero(limbs, 5), 0, 0>>, 1, step_4, 0, 0)
        ELSE sum_var

compressed_limbs_var(all) == [k \in 1..5 |-> CompressedLimbVar(Chunk(all, k))]

\* A repacking with the factors of the second and the third limb exchanged.
RepackVar_steps_swapped(limbs) ==
    linear_combine(<<linear_combine(<<limbs[1], limbs[2], limbs[3], limbs[4]>>,
                                    1, step_2, step_1, step_3),
                     limbs[5], limbs[6], 0>>,
                   1, step_4, step_5, 0)

\* Step 6: the six limbs repacked into one circuit-field element.
RepackVar(limbs) ==
    LET first == linear_combine(<<limbs[1], limbs[2], limbs[3], limbs[4]>>,
                                1, step_1, step_2, step_3)
    IN  linear_combine(<<first, limbs[5], limbs[6], 0>>, 1, step_4, step_5, 0)

\* The witness build_bar_to_abar_cs assigns for its arguments.
build_bar_to_abar_cs(amount, asset_type, blind_hash, pubkey_x, proof, non_zk_state, beta, lambda) ==
    LET x_sim_fr == SimFrFrom(non_zk_state.x)
        y_sim_fr == SimFrFrom(non_zk_state.y)
        a_sim_fr == SimFrFrom(non_zk_state.a)
        b_sim_fr == SimFrFrom(non_zk_state.b)
        beta_lambda == SMul(beta, lambda)
        s1_plus_lambda_s2 == SAdd(proof.s_1, SMul(proof.s_2, lambda))
        all_limbs_var == x_sim_fr \o y_sim_fr \o a_sim_fr \o b_sim_fr
        cl == compressed_limbs_var(all_limbs_var)
        h1 == rescue(<<cl[1], cl[2], cl[3], cl[4]>>)[1]
        h2 == rescue(<<h1, cl[5], non_zk_state.r, 0>>)[1]
        cur == rescue(<<blind_hash, amount, asset_type, 0>>)[1]
    IN  [amount_var |-> amount,
         at_var |-> asset_type,
         blind_hash_var |-> blind_hash,
         pubkey_x_var |-> pubkey_x,
         x_sim_fr_var |-> x_sim_fr,
         y_sim_fr_var |-> y_sim_fr,
         a_sim_fr_var |-> a_sim_fr,
         b_sim_fr_var |-> b_sim_fr,
         comm_var |-> proof.non_zk_part_state_commitment,
         r_var |-> non_zk_state.r,
         beta_sim_fr_var |-> SimFrFrom(beta),
         lambda_sim_fr_var |-> SimFrFrom(lambda),
         beta_lambda_sim_fr_var |-> SimFrFrom(beta_lambda),
         s1_plus_lambda_s2_sim_fr_var |-> SimFrFrom(s1_plus_lambda_s2),
         compressed_limbs_var |-> cl,
         h2_var |-> h2,
         x_in_bls12_381 |-> RepackVar(x_sim_fr),
         y_in_bls12_381 |-> RepackVar(y_sim_fr),
         rescue_comm_var |-> rescue(<<cur, pubkey_x, 0, 0>>)[1]]

\* cs.prepare_pi_variable, in the order of the calls: <<variable, limb>>, limb 0
\* for a variable that is a single field element.
LimbVars(name) == [i \in 1..NUM_OF_LIMBS |-> <<name, i>>]

\* Public inputs declared with comm_var before rescue_comm_var.
cs_public_vars_comm_first ==
    <<<<"comm_var", 0>>, <<"rescue_comm_var", 0>>>>
        \o LimbVars("beta_sim_fr_var")
        \o LimbVars("lambda_sim_fr_var")
        \o LimbVars("beta_lambda_sim_fr_var")
        \o LimbVars("s1_plus_lambda_s2_sim_fr_var")

cs_public_vars ==
    <<<<"rescue_comm_var", 0>>, <<"comm_var", 0>>>>
        \o LimbVars("beta_sim_fr_var")
        \o LimbVars("lambda_sim_fr_var")
        \o LimbVars("beta_lambda_sim_fr_var")
        \o LimbVars("s1_plus_lambda_s2_sim_fr_var")

VarValue(w, pv) == IF pv[2] = 0 THEN w[pv[1]] ELSE w[pv[1]][pv[2]]

\* The values the witness gives the public-input variables.
PublicInputsOf(w) == [i \in 1..Len(cs_public_vars) |-> VarValue(w, cs_public_vars[i])]

(***************************************************************************)
(* The shape of the constraint system: the calls build_bar_to_abar_cs      *)
(* makes on the TurboCS, in their order, and what they add to it.  A call  *)
(* is [kind, n]: n is the number of limbs or of chunk members it is given. *)
(***************************************************************************)
Call(kind, n) == [kind |-> kind, n |-> n]

\* The variables and gates a call adds to the constraint system (counts scaled).
CallCost(c) ==
    CASE c.kind = "new_variable" -> [vars |-> 1, gates |-> 0]
      [] c.kind \in {"alloc_witness", "alloc_input", "alloc_witness_bounded_total_bits"}
            -> [vars |-> c.n, gates |-> c.n]
      [] c.kind = "linear_combine" -> [vars |-> 1, gates |-> 1]
      [] c.kind = "rescue_hash" -> [vars |-> 4, gates |-> 4]
      [] c.kind \in {"mul", "add", "sub"} -> [vars |-> 2 * c.n - 1, gates |-> 2 * c.n - 1]
      [] c.kind = "enforce_zero" -> [vars |-> c.n, gates |-> c.n + 1]
      [] c.kind = "equal" -> [vars |-> 0, gates |-> 1]

\* A loop round that folds the fifth limb in only where its value is not zero.
ChunkCalls_zero_skipped(limbs) ==
    <<Call("linear_combine", Min(Len(limbs), 4))>>
        \o IF Len(limbs) = 5 /\ limbs[5] # 0 THEN <<Call("linear_combine", 2)>> ELSE <<>>

\* One round of the loop over the chunks: a linear_combine, and a second one
\* if limbs.len() == 5.
ChunkCalls(limbs) ==
    <<Call("linear_combine", Min(Len(limbs), 4))>>
        \o IF Len(limbs) = 5 THEN <<Call("linear_combine", 2)>> ELSE <<>>

\* The calls of build_bar_to_abar_cs up to the public inputs.
cs_calls(proof, non_zk_state, beta, lambda) ==
    LET x_sim_fr == SimFrFrom(non_zk_state.x)
        y_sim_fr == SimFrFrom(non_zk_state.y)
        a_sim_fr == SimFrFrom(non_zk_state.a)
        b_sim_fr == SimFrFrom(non_zk_state.b)
        all_limbs == x_sim_fr \o y_sim_fr \o a_sim_fr \o b_sim_fr
        chunks == (Len(all_limbs) + 4) \div 5
        RECURSIVE Loop(_)
        Loop(k) == IF k > chunks THEN <<>>
                   ELSE ChunkCalls(SubSeq(all_limbs, 5 * (k - 1) + 1, Min(5 * k, Len(all_limbs))))
                            \o Loop(k + 1)
    IN  <<Call("new_variable", 1), Call("new_variable", 1), Call("new_variable", 1),
          Call("new_variable", 1),
          Call("alloc_witness_bounded_total_bits", Len(x_sim_fr)),
          Call("alloc_witness_bounded_total_bits", Len(y_sim_fr)),
          Call("alloc_witness", Len(a_sim_fr)),
          Call("alloc_witness", Len(b_sim_fr)),
          Call("new_variable", 1), Call("new_variable", 1),
          Call("alloc_input", Len(SimFrFrom(beta))),
          Call("alloc_input", Len(SimFrFrom(lambda))),
          Call("alloc_input", Len(SimFrFrom(SMul(beta, lambda)))),
          Call("alloc_input", Len(SimFrFrom(SAdd(proof.s_1, SMul(proof.s_2, lambda)))))>>
        \o Loop(1)
        \o <<Call("rescue_hash", 4), Call("rescue_hash", 4), Call("equal", 2),
              Call("mul", NUM_OF_LIMBS), Call("mul", NUM_OF_LIMBS), Call("mul", NUM_OF_LIMBS),
              Call("add", NUM_OF_LIMBS), Call("add", NUM_OF_LIMBS), Call("sub", NUM_OF_LIMBS),
              Call("sub", NUM_OF_LIMBS), Call("enforce_zero", NUM_OF_LIMBS),
              Call("linear_combine", 4), Call("linear_combine", 3),
              Call("linear_combine", 4), Call("linear_combine", 3),
              Call("equal", 2), Call("equal", 2),
              Call("rescue_hash", 4), Call("rescue_hash", 4)>>

\* cs.pad(): the number of constraints raised to the next power of two.
pad(n) == Pow2(CHOOSE k \in 0..16 : Pow2(k) >= n /\ (k = 0 \/ Pow2(k - 1) < n))

\* The constraint system the calls leave: its gates in their order, the number
\* of its variables (zero_var is variable 0), the positions of the variables
\* declared public and its padded size.  rescue_comm_var is cs.rescue_hash(..)[0]
\* of the last call, the first of the four variables that call adds; comm_var
\* is the variable of call 9; the limbs are those of calls 11 to 14.
cs_shape(calls) ==
    LET RECURSIVE VarsBefore(_)
        VarsBefore(k) == IF k = 1 THEN 1 ELSE VarsBefore(k - 1) + CallCost(calls[k - 1]).vars
        RECURSIVE GatesUpTo(_)
        GatesUpTo(k) == IF k = 0 THEN 0 ELSE GatesUpTo(k - 1) + CallCost(calls[k]).gates
        n == Len(calls)
    IN  [gates |-> [k \in 1..n |-> <<calls[k].kind, CallCost(calls[k]).gates>>],
         n_vars |-> VarsBefore(n + 1),
         public |-> <<VarsBefore(n), VarsBefore(9)>>
                      \o [i \in 1..(4 * NUM_OF_LIMBS) |->
                             VarsBefore(11 + ((i - 1) \div NUM_OF_LIMBS))
                                + ((i - 1) % NUM_OF_LIMBS)],
         size |-> pad(GatesUpTo(n))]

\* params.cs: the constraint system of the prover's parameters, built once from
\* arguments that are all zero.
params_cs ==
    cs_shape(cs_calls([s_1 |-> 0, s_2 |-> 0], [x |-> 0, y |-> 0, a |-> 0, b |-> 0, r |-> 0],
                      0, 0))

\* SimFrVar::alloc_witness / alloc_input: every limb is range-checked to
\* BIT_PER_LIMB bits; alloc_witness_bounded_total_bits(v, t) also bounds the whole
\* value below 2^t.
LimbsInRange(limbs) == \A i \in 1..Len(limbs) : limbs[i] \in 0..(Pow2(BIT_PER_LIMB) - 1)

\* alloc_witness_bounded_total_bits(v, t)
BoundedTotalBits(limbs, t) == LimbsInRange(limbs) /\ SimFrValue(limbs) < Pow2(t)

\* A residue whose left-hand side is s1_plus_lambda_s2 + a.
SigmaResidue_a_added(w) ==
    SimFrValue(w.beta_sim_fr_var) * SimFrValue(w.x_sim_fr_var)
        + SimFrValue(w.beta_lambda_sim_fr_var) * SimFrValue(w.y_sim_fr_var)
        + SimFrValue(w.lambda_sim_fr_var) * SimFrValue(w.b_sim_fr_var)
        - (SimFrValue(w.s1_plus_lambda_s2_sim_fr_var) + SimFrValue(w.a_sim_fr_var))

\* Step 5: rhs = beta*x + beta_lambda*y + lambda*b, lhs = s1_plus_lambda_s2 - a,
\* enforce_zero(rhs - lhs): the difference is a multiple of the source modulus.
SigmaResidue(w) ==
    SimFrValue(w.beta_sim_fr_var) * SimFrValue(w.x_sim_fr_var)
        + SimFrValue(w.beta_lambda_sim_fr_var) * SimFrValue(w.y_sim_fr_var)
        + SimFrValue(w.lambda_sim_fr_var) * SimFrValue(w.b_sim_fr_var)
        - (SimFrValue(w.s1_plus_lambda_s2_sim_fr_var) - SimFrValue(w.a_sim_fr_var))

enforce_zero(n) == n % QS = 0

\* Range checks that bound every limb and leave the totals of x and y unbounded.
RangeGates_limbs_only(w) ==
    /\ LimbsInRange(w.x_sim_fr_var)
    /\ LimbsInRange(w.y_sim_fr_var)
    /\ LimbsInRange(w.a_sim_fr_var)
    /\ LimbsInRange(w.b_sim_fr_var)
    /\ LimbsInRange(w.beta_sim_fr_var)
    /\ LimbsInRange(w.lambda_sim_fr_var)
    /\ LimbsInRange(w.beta_lambda_sim_fr_var)
    /\ LimbsInRange(w.s1_plus_lambda_s2_sim_fr_var)

\* Step 2: the range checks of the allocations.
RangeGates(w) ==
    /\ BoundedTotalBits(w.x_sim_fr_var, AMOUNT_BITS)
    /\ BoundedTotalBits(w.y_sim_fr_var, TYPE_BITS)
    /\ LimbsInRange(w.a_sim_fr_var)
    /\ LimbsInRange(w.b_sim_fr_var)
    /\ LimbsInRange(w.beta_sim_fr_var)
    /\ LimbsInRange(w.lambda_sim_fr_var)
    /\ LimbsInRange(w.beta_lambda_sim_fr_var)
    /\ LimbsInRange(w.s1_plus_lambda_s2_sim_fr_var)

\* Opening gates whose second Rescue call takes (h1, r, 0, 0): the last packed
\* value does not enter it.
OpeningGates_blind_second(w) ==
    /\ w.compressed_limbs_var
         = compressed_limbs_var(w.x_sim_fr_var \o w.y_sim_fr_var \o w.a_sim_fr_var
                                    \o w.b_sim_fr_var)
    /\ w.h2_var = rescue(<<rescue(<<w.compressed_limbs_var[1], w.compressed_limbs_var[2],
                                    w.compressed_limbs_var[3], w.compressed_limbs_var[4]>>)[1],
                           w.r_var, 0, 0>>)[1]
    /\ w.h2_var = w.comm_var

\* Steps 3 and 4: the limbs are packed, hashed twice, and cs.equal(h2_var, comm_var).
OpeningGates(w) ==
    /\ w.compressed_limbs_var
         = compressed_limbs_var(w.x_sim_fr_var \o w.y_sim_fr_var \o w.a_sim_fr_var
                                    \o w.b_sim_fr_var)
    /\ w.h2_var = rescue(<<rescue(<<w.compressed_limbs_var[1], w.compressed_limbs_var[2],
                                    w.compressed_limbs_var[3], w.compressed_limbs_var[4]>>)[1],
                           w.compressed_limbs_var[5], w.r_var, 0>>)[1]
    /\ w.h2_var = w.comm_var

\* Step 5: eqn.enforce_zero(&mut cs)
SigmaGate(w) == enforce_zero(SigmaResidue(w))

\* Step 6: cs.equal(x_in_bls12_381, amount_var); cs.equal(y_in_bls12_381, at_var)
BindingGates(w) ==
    /\ w.x_in_bls12_381 = RepackVar(w.x_sim_fr_var)
    /\ w.y_in_bls12_381 = RepackVar(w.y_sim_fr_var)
    /\ w.x_in_bls12_381 = w.amount_var
    /\ w.y_in_bls12_381 = w.at_var

\* Step 7: the two rescue_hash gates of rescue_comm_var
RescueCommGates(w) ==
    w.rescue_comm_var
        = rescue(<<rescue(<<w.blind_hash_var, w.amount_var, w.at_var, 0>>)[1],
                   w.pubkey_x_var, 0, 0>>)[1]

\* Every gate of the system holds for the witness.
GatesHold(w) ==
    /\ RangeGates(w)
    /\ OpeningGates(w)
    /\ SigmaGate(w)
    /\ BindingGates(w)
    /\ RescueCommGates(w)

\* The witness gives the public-input variables the online inputs' values.
PublicInputsMatch(w, online_inputs) ==
    /\ Len(online_inputs) = Len(cs_public_vars)
    /\ \A i \in 1..Len(cs_public_vars) : VarValue(w, cs_public_vars[i]) = online_inputs[i]

\* cs.verify_witness(&witness, &online_inputs)
verify_witness(w, online_inputs) == PublicInputsMatch(w, online_inputs) /\ GatesHold(w)

\* The PLONK prover and verifier as a sound and complete proof system: the
\* prover fails on a witness that does not satisfy the system; a proof stands
\* for the public inputs of the witness it was made from, and the verifier
\* accepts it for these and no other online inputs.
prover_with_lagrange(w) ==
    IF GatesHold(w) THEN [ok |-> TRUE, statement |-> PublicInputsOf(w)]
    ELSE [ok |-> FALSE, statement |-> <<>>]

verifier(online_inputs, proof) == proof.ok /\ proof.statement = online_inputs

(***************************************************************************)
(* Asset records, and the conversion's prover and verifier                 *)
(* (confidential_to_anonymous.rs).                                         *)
(***************************************************************************)
\* XfrAmount and XfrAssetType, confidential (the commitments' bytes) or not
\* (the value in clear).
ConfAmount(low, high) == [conf |-> TRUE, low |-> low, high |-> high, value |-> None]
ClearAmount(amount) == [conf |-> FALSE, low |-> None, high |-> None, value |-> amount]
ConfType(bytes) == [conf |-> TRUE, bytes |-> bytes, value |-> None]
ClearType(asset_type) == [conf |-> FALSE, bytes |-> None, value |-> asset_type]

\* build_blind_asset_record followed by open_blind_asset_record: the opening of
\* a fresh record.  A confidential field is committed with the blinds drawn; a
\* field in clear has zero blinds.
OpenRecord(amt, asset_type, conf_amount, conf_type, owner, blinds) ==
    LET halves == u64_to_u32_pair(amt)
        g == IF conf_amount THEN <<blinds[1], blinds[2]>> ELSE <<0, 0>>
        d == IF conf_type THEN blinds[3] ELSE 0
    IN  [blind_asset_record |->
            [amount |-> IF conf_amount
                        THEN ConfAmount(compress(commit(ScalarFrom(halves[1]), g[1])),
                                        compress(commit(ScalarFrom(halves[2]), g[2])))
                        ELSE ClearAmount(amt),
             asset_type |-> IF conf_type
                            THEN ConfType(compress(commit(AsScalarS(asset_type), d)))
                            ELSE ClearType(asset_type),
             public_key |-> XfrPubKeyOf(owner)],
         amount |-> amt,
         amount_blinds |-> g,
         asset_type |-> asset_type,
         type_blind |-> d]

\* bar_to_abar, step 2: the prover's blind gamma and its points P and Q.
ProverGamma(obar) ==
    SAdd(obar.amount_blinds[1], SMul(obar.amount_blinds[2], ScalarFrom(TWO_POW_32)))

ProverPointP(obar) == commit(ScalarFrom(obar.amount), ProverGamma(obar))

ProverPointQ(obar) == commit(AsScalarS(obar.asset_type), obar.type_blind)

\* A z that hashes the asset type where the code hashes the amount, and the
\* amount where it hashes the asset type.
ProverZ_swapped(z_randomizer, x_in_bls12_381, y_in_bls12_381, pubkey_x) ==
    LET cur == rescue(<<z_randomizer, y_in_bls12_381, x_in_bls12_381, 0>>)[1]
    IN  rescue(<<cur, pubkey_x, 0, 0>>)[1]

\* bar_to_abar: the commitment z computed outside the circuit.
ProverZ(z_randomizer, x_in_bls12_381, y_in_bls12_381, pubkey_x) ==
    LET cur == rescue(<<z_randomizer, x_in_bls12_381, y_in_bls12_381, 0>>)[1]
    IN  rescue(<<cur, pubkey_x, 0, 0>>)[1]

\* prove_eq_committed_vals: [err, proof, witness]; a failure of the PLONK
\* prover is reported as AXfrProofError.
prove_eq_committed_vals(amount, asset_type, blind_hash, pubkey_x, proof, non_zk_state, beta, lambda) ==
    LET witness == build_bar_to_abar_cs(amount, asset_type, blind_hash, pubkey_x, proof,
                                        non_zk_state, beta, lambda)
        pf == prover_with_lagrange(witness)
    IN  [err |-> IF pf.ok THEN "Ok" ELSE "AXfrProofError", proof |-> pf, witness |-> witness]

\* bar_to_abar: [err, oabar, proof], and the witness and challenges it used.
bar_to_abar(rnd, obar, abar_pubkey, enc_key) ==
    LET oabar_amount == obar.amount
        oabar == OabarBuild(oabar_amount, obar.asset_type, abar_pubkey, enc_key, rnd.blind)
        x == ScalarFrom(oabar_amount)
        y == AsScalarS(obar.asset_type)
        gamma == ProverGamma(obar)
        delta == obar.type_blind
        point_p == ProverPointP(obar)
        point_q == ProverPointQ(obar)
        x_in_bls12_381 == ToBLS(x)
        y_in_bls12_381 == ToBLS(y)
        z == ProverZ(oabar.blind, x_in_bls12_381, y_in_bls12_381, PubKeyX(abar_pubkey))
        sigma == prove_delegated_chaum_pedersen(rnd, x, gamma, y, delta, point_p, point_q, z)
        plonk == prove_eq_committed_vals(x_in_bls12_381, y_in_bls12_381, oabar.blind,
                                         PubKeyX(abar_pubkey), sigma.proof,
                                         sigma.non_zk_state, sigma.beta, sigma.lambda)
    IN  [err |-> plonk.err,
         oabar |-> oabar,
         proof |-> [commitment_eq_proof |-> sigma.proof,
                    pc_rescue_commitments_eq_proof |-> plonk.proof],
         witness |-> plonk.witness,
         z |-> z]

\* A body whose output commits to the amount zero.
BodyFrom_zero_amount(record, r) ==
    [err |-> r.err,
     body |-> [input |-> record.blind_asset_record,
               output |-> from_oabar([r.oabar EXCEPT !.amount = 0]),
               proof |-> r.proof,
               memo |-> r.oabar.owner_memo],
     witness |-> r.witness]

\* gen_bar_to_abar_body: the body built from what bar_to_abar returned
BodyFrom(record, r) ==
    [err |-> r.err,
     body |-> [input |-> record.blind_asset_record,
               output |-> from_oabar(r.oabar),
               proof |-> r.proof,
               memo |-> r.oabar.owner_memo],
     witness |-> r.witness]

gen_bar_to_abar_body(rnd, record, abar_pubkey, enc_key) ==
    BodyFrom(record, bar_to_abar(rnd, record, abar_pubkey, enc_key))

\* bincode::serialize(&body): the fields' bytes in the order of declaration.
SerializeAmount(a) == <<IF a.conf THEN 1 ELSE 0, a.low, a.high, a.value>>
SerializeType(t) == <<IF t.conf THEN 1 ELSE 0, t.bytes, t.value>>
SerializeZk(p) ==
    <<p.non_zk_part_state_commitment, p.point_r, p.point_s, p.s_1, p.s_2, p.s_3, p.s_4>>
SerializePlonk(p) == <<IF p.ok THEN 1 ELSE 0>> \o p.statement
\* A serialization that leaves the owner memo out.
serialize_memo_skipped(body) ==
    SerializeAmount(body.input.amount) \o SerializeType(body.input.asset_type)
        \o <<body.input.public_key, body.output.commitment>>
        \o SerializeZk(body.proof.commitment_eq_proof)
        \o SerializePlonk(body.proof.pc_rescue_commitments_eq_proof)

serialize(body) ==
    SerializeAmount(body.input.amount) \o SerializeType(body.input.asset_type)
        \o <<body.input.public_key, body.output.commitment>>
        \o SerializeZk(body.proof.commitment_eq_proof)
        \o SerializePlonk(body.proof.pc_rescue_commitments_eq_proof)
        \o <<body.memo.to>> \o body.memo.plain

\* gen_bar_to_abar_note: the body, signed by the source record's key pair
SignedNote(bar_keypair, b) ==
    [err |-> b.err,
     note |-> [body |-> b.body, signature |-> sign(bar_keypair, serialize(b.body))],
     witness |-> b.witness]

gen_bar_to_abar_note(rnd, record, bar_keypair, abar_pubkey, enc_key) ==
    SignedNote(bar_keypair, gen_bar_to_abar_body(rnd, record, abar_pubkey, enc_key))

\* verify_bar_to_abar, 1.1: [err, com_low, com_high]
ReconstructAmount(bar) ==
    IF bar.amount.conf
    THEN LET low == decompress(bar.amount.low)
             high == decompress(bar.amount.high)
         IN  IF low = None \/ high = None
             THEN [err |-> "DecompressElementError", com_low |-> None, com_high |-> None]
             ELSE [err |-> "Ok", com_low |-> low, com_high |-> high]
    ELSE LET lh == u64_to_u32_pair(bar.amount.value)
         IN  [err |-> "Ok",
              com_low |-> commit(ScalarFrom(lh[1]), 0),
              com_high |-> commit(ScalarFrom(lh[2]), 0)]

\* The sum of the two commitments, the high one not shifted.
ComAmount_unshifted(com_low, com_high) == GAdd(com_low, com_high)

\* let com_amount = com_low.add(&com_high.mul(&RistrettoScalar::from(TWO_POW_32)));
ComAmount(com_low, com_high) == GAdd(com_low, GMul(com_high, ScalarFrom(TWO_POW_32)))

\* verify_bar_to_abar, 1.2: [err, com]
ReconstructAssetType(bar) ==
    IF bar.asset_type.conf
    THEN LET a == decompress(bar.asset_type.bytes)
         IN  IF a = None THEN [err |-> "DecompressElementError", com |-> None]
             ELSE [err |-> "Ok", com |-> a]
    ELSE [err |-> "Ok", com |-> commit(AsScalarS(bar.asset_type.value), 0)]

\* A reconstruction that goes on when the asset type's bytes decode to no point.
ReconstructPoints_amount_only(bar) ==
    IF ReconstructAmount(bar).err # "Ok"
    THEN [err |-> ReconstructAmount(bar).err, com_amount |-> None, com_asset_type |-> None]
    ELSE [err |-> "Ok",
          com_amount |-> GAdd(ReconstructAmount(bar).com_low,
                              GMul(ReconstructAmount(bar).com_high, ScalarFrom(TWO_POW_32))),
          com_asset_type |-> ReconstructAssetType(bar).com]

\* verify_bar_to_abar, step 1: [err, com_amount, com_asset_type]; the first
\* failing decompression ends it.
ReconstructPoints(bar) ==
    LET am == ReconstructAmount(bar)
        at == ReconstructAssetType(bar)
    IN  IF am.err # "Ok" THEN [err |-> am.err, com_amount |-> None, com_asset_type |-> None]
        ELSE IF at.err # "Ok"
        THEN [err |-> at.err, com_amount |-> None, com_asset_type |-> None]
        ELSE [err |-> "Ok", com_amount |-> ComAmount(am.com_low, am.com_high),
              com_asset_type |-> at.com]

\* Online inputs with the limbs of lambda before those of beta.
OnlineInputs_lambda_first(hash_comm, proof_zk_part, beta, lambda) ==
    <<hash_comm, proof_zk_part.non_zk_part_state_commitment>>
        \o SimFrFrom(lambda) \o SimFrFrom(beta) \o SimFrFrom(SMul(beta, lambda))
        \o SimFrFrom(SAdd(proof_zk_part.s_1, SMul(proof_zk_part.s_2, lambda)))

\* verify_eq_committed_vals: the online inputs it assembles
OnlineInputs(hash_comm, proof_zk_part, beta, lambda) ==
    LET beta_sim_fr == SimFrFrom(beta)
        lambda_sim_fr == SimFrFrom(lambda)
        beta_lambda_sim_fr == SimFrFrom(SMul(beta, lambda))
        s1_plus_lambda_s2_sim_fr ==
            SimFrFrom(SAdd(proof_zk_part.s_1, SMul(proof_zk_part.s_2, lambda)))
    IN  <<hash_comm, proof_zk_part.non_zk_part_state_commitment>>
            \o beta_sim_fr \o lambda_sim_fr \o beta_lambda_sim_fr \o s1_plus_lambda_s2_sim_fr

\* A check that looks at the proof and at the number of online inputs only.
PlonkCheck_any_inputs(online_inputs, proof) ==
    IF proof.ok /\ Len(proof.statement) = Len(online_inputs) THEN "Ok"
    ELSE "ZKProofVerificationError"

\* verifier(..., &online_inputs, proof).c(d!(ZeiError::ZKProofVerificationError))
PlonkCheck(online_inputs, proof) ==
    IF verifier(online_inputs, proof) THEN "Ok" ELSE "ZKProofVerificationError"

verify_eq_committed_vals(hash_comm, proof_zk_part, proof, beta, lambda) ==
    PlonkCheck(OnlineInputs(hash_comm, proof_zk_part, beta, lambda), proof)

\* verify_bar_to_abar as a whole: the first error of its three steps, or Ok.
verify_bar_to_abar(bar, abar, proof) ==
    LET pts == ReconstructPoints(bar)
        sg == verify_delegated_chaum_pedersen(pts.com_amount, pts.com_asset_type,
                                              abar.commitment, proof.commitment_eq_proof)
    IN  IF pts.err # "Ok" THEN pts.err
        ELSE IF ~sg.ok THEN "ZKProofVerificationError"
        ELSE verify_eq_committed_vals(abar.commitment, proof.commitment_eq_proof,
                                      proof.pc_rescue_commitments_eq_proof, sg.beta, sg.lambda)

\* verify_bar_to_abar_body
verify_bar_to_abar_body(body) == verify_bar_to_abar(body.input, body.output, body.proof)

\* A check of who signed, not of what was signed.
SignatureCheck_signer_only(note, bar_pub_key) ==
    IF note.signature.signer = bar_pub_key THEN "Ok" ELSE "SignatureError"

\* bar_pub_key.verify(&msg, &note.signature)
SignatureCheck(note, bar_pub_key) ==
    IF sig_verify(bar_pub_key, serialize(note.body), note.signature) THEN "Ok"
    ELSE "SignatureError"

\* verify_bar_to_abar_note
verify_bar_to_abar_note(note, bar_pub_key) ==
    LET b == verify_bar_to_abar_body(note.body)
    IN  IF b # "Ok" THEN b ELSE SignatureCheck(note, bar_pub_key)

(***************************************************************************)
(* The conversion as a state machine: a record is opened, a note is        *)
(* generated from it, the note may be changed on its way, and it is        *)
(* verified step by step.                                                  *)
(***************************************************************************)
MaxSeed == 2
KeyPairs == {1, 2}
SampleAmounts == {0, 1, Pow2(HALF_BITS), Pow2(AMOUNT_BITS) - 6, Pow2(AMOUNT_BITS) - 1}
SampleAssetTypes == {0, 52, Pow2(TYPE_BITS) - 1, Pow2(TYPE_BITS)}

\* The prng's draws: the blinds of a fresh record ...
Blinds(seed) == <<(seed * 2917 + 5) % QS, (seed * 7001 + 11) % QS, (seed * 977 + 3) % QS>>

\* ... and the draws of bar_to_abar: a, b, c, d and r for the sigma protocol, the
\* blind of the ABAR.
Rnd(seed) ==
    [a |-> (seed * 4099 + 17) % QS, b |-> (seed * 6151 + 29) % QS,
     c |-> (seed * 1237 + 1) % QS, d |-> (seed * 5003 + 7) % QS,
     r |-> (seed * 20011 + 23) % QC, blind |-> (seed * 30011 + 31) % QC]

NoNote == [body |-> <<>>, signature |-> <<>>]
Unchanged == [body |-> "none", signature |-> "none"]
VerifyIdle ==
    [pc |-> "idle", mode |-> "none", key |-> None, com_amount |-> None,
     com_asset_type |-> None, beta |-> None, lambda |-> None, online_inputs |-> <<>>,
     result |-> "none", calls |-> <<>>]
CsIdle == [slot |-> None, online_inputs |-> <<>>, cs_ok |-> FALSE, eq_result |-> "none"]
NotOpened == [by |-> None, dec |-> None, err |-> "none", oabar |-> NoOabar]

XInit ==
    /\ \E amt \in SampleAmounts, at \in SampleAssetTypes, ca \in BOOLEAN, ct \in BOOLEAN,
          seed \in 1..MaxSeed :
            open_record = OpenRecord(amt, at, ca, ct, 1, Blinds(seed))
    /\ keys \in [bar_keypair : {1}, abar_keypair : KeyPairs, dec_key : {1}]
    /\ xpc = "init"
    /\ draw = None
    /\ gen_err = "none"
    /\ xfr_note = NoNote
    /\ cs_witness = <<>>
    /\ changed = Unchanged
    /\ verify = VerifyIdle
    /\ cstest = CsIdle
    /\ opened = NotOpened

\* gen_bar_to_abar_note(prng, params, record, bar_keypair, abar_pubkey, enc_key)
\* returned r
GenNoteReturns(r) ==
    /\ gen_err' = r.err
    /\ cs_witness' = r.witness
    /\ IF r.err = "Ok"
       THEN xfr_note' = r.note /\ xpc' = "generated"
       ELSE xfr_note' = NoNote /\ xpc' = "failed"

GenNote ==
    /\ xpc = "init"
    /\ \E seed \in 1..MaxSeed :
        /\ draw' = seed
        /\ GenNoteReturns(gen_bar_to_abar_note(Rnd(seed), open_record, keys.bar_keypair,
                                               AXfrPubKeyOf(keys.abar_keypair),
                                               XPublicKeyOf(keys.dec_key)))
    /\ UNCHANGED <<mvars, dvars, cvars, pvars, open_record, keys, changed, verify, cstest, opened>>

Untouched == xpc = "generated" /\ verify.pc = "idle" /\ cstest.slot = None /\ opened.by = None

\* The note's signature is replaced by a signature of the same key over another
\* message (the tests sign b"anymesage").
ReplaceSignature ==
    /\ Untouched /\ changed.signature = "none"
    /\ xfr_note' = [xfr_note EXCEPT !.signature = sign(keys.bar_keypair, <<97, 110, 121, 109, 101, 115, 97, 103, 101>>)]
    /\ changed' = [changed EXCEPT !.signature = "replaced"]
    /\ UNCHANGED <<mvars, dvars, cvars, pvars, open_record, keys, xpc, draw, gen_err, cs_witness,
                 verify, cstest, opened>>

\* The owner signs the body as it stands.
SignAgain ==
    /\ Untouched /\ changed.signature = "none" /\ changed.body # "none"
    /\ xfr_note' = [xfr_note EXCEPT !.signature = sign(keys.bar_keypair, serialize(xfr_note.body))]
    /\ changed' = [changed EXCEPT !.signature = "again"]
    /\ UNCHANGED <<mvars, dvars, cvars, pvars, open_record, keys, xpc, draw, gen_err, cs_witness,
                 verify, cstest, opened>>

ChangeBody(what, body) ==
    /\ Untouched /\ changed = Unchanged
    /\ xfr_note' = [xfr_note EXCEPT !.body = body]
    /\ changed' = [changed EXCEPT !.body = what]
    /\ UNCHANGED <<mvars, dvars, cvars, pvars, open_record, keys, xpc, draw, gen_err, cs_witness,
                 verify, cstest, opened>>

\* One of the input's committed byte strings is replaced by bytes that encode
\* no point.
CorruptEncoding ==
    /\ xpc = "generated"
    /\ \/ /\ xfr_note.body.input.amount.conf
          /\ ChangeBody("amount_low",
                [xfr_note.body EXCEPT !.input.amount.low = xfr_note.body.input.amount.low + 1])
       \/ /\ xfr_note.body.input.amount.conf
          /\ ChangeBody("amount_high",
                [xfr_note.body EXCEPT !.input.amount.high = xfr_note.body.input.amount.high + 1])
       \/ /\ xfr_note.body.input.asset_type.conf
          /\ ChangeBody("asset_type",
                [xfr_note.body EXCEPT !.input.asset_type.bytes =
                                       xfr_note.body.input.asset_type.bytes + 1])

\* The input is replaced by a record of another amount.
ChangeInput ==
    /\ xpc = "generated"
    /\ \/ /\ xfr_note.body.input.amount.conf
          /\ ChangeBody("input",
                [xfr_note.body EXCEPT !.input.amount.low =
                    compress(GAdd(decompress(xfr_note.body.input.amount.low), get_base))])
       \/ /\ ~xfr_note.body.input.amount.conf
          /\ ChangeBody("input",
                [xfr_note.body EXCEPT !.input.amount.value =
                    (xfr_note.body.input.amount.value + 1) % Pow2(AMOUNT_BITS)])

ChangeOutput ==
    /\ xpc = "generated"
    /\ ChangeBody("output",
            [xfr_note.body EXCEPT !.output.commitment = CAdd(xfr_note.body.output.commitment, 1)])

ChangeProof ==
    /\ xpc = "generated"
    /\ \/ ChangeBody("sigma_proof",
                [xfr_note.body EXCEPT !.proof.commitment_eq_proof.s_1 =
                      SAdd(xfr_note.body.proof.commitment_eq_proof.s_1, 1)])
       \/ ChangeBody("plonk_proof",
                [xfr_note.body EXCEPT !.proof.pc_rescue_commitments_eq_proof.statement[1] =
                      CAdd(xfr_note.body.proof.pc_rescue_commitments_eq_proof.statement[1], 1)])

ChangeMemo ==
    /\ xpc = "generated"
    /\ ChangeBody("memo",
            [xfr_note.body EXCEPT !.memo.plain[1] = (xfr_note.body.memo.plain[1] + 1)
                                                    % Pow2(AMOUNT_BITS)])

\* verify_bar_to_abar_body (mode "body") or verify_bar_to_abar_note under a key
\* (mode "note") is called; verify_bar_to_abar's step 1 reconstructs the points.
VerifyBegin ==
    /\ xpc = "generated" /\ verify.pc = "idle" /\ cstest.slot = None /\ opened.by = None
    /\ \E mode \in {"body", "note"}, k \in KeyPairs :
        /\ mode = "body" => k = 1
        /\ LET pts == ReconstructPoints(xfr_note.body.input)
           IN  verify' = [verify EXCEPT
                    !.mode = mode,
                    !.key = IF mode = "note" THEN XfrPubKeyOf(k) ELSE None,
                    !.calls = <<"points">>,
                    !.com_amount = pts.com_amount,
                    !.com_asset_type = pts.com_asset_type,
                    !.pc = IF pts.err = "Ok" THEN "points" ELSE "done",
                    !.result = IF pts.err = "Ok" THEN "none" ELSE pts.err]
    /\ UNCHANGED <<mvars, dvars, cvars, pvars, open_record, keys, xpc, draw, gen_err, xfr_note,
                 cs_witness, changed, cstest, opened>>

\* A step 2 that hands the challenges on to step 3 whatever the sigma verifier found.
VerifySigma_unchecked ==
    /\ verify.pc = "points"
    /\ LET sg == verify_delegated_chaum_pedersen(verify.com_amount, verify.com_asset_type,
                                                 xfr_note.body.output.commitment,
                                                 xfr_note.body.proof.commitment_eq_proof)
       IN  verify' = [verify EXCEPT
                !.calls = Append(@, "sigma"),
                !.beta = sg.beta,
                !.lambda = sg.lambda,
                !.pc = "sigma"]
    /\ UNCHANGED <<mvars, dvars, cvars, pvars, open_record, keys, xpc, draw, gen_err, xfr_note,
                 cs_witness, changed, cstest, opened>>

\* Step 2: verify_delegated_chaum_pedersen
VerifySigma ==
    /\ verify.pc = "points"
    /\ LET sg == verify_delegated_chaum_pedersen(verify.com_amount, verify.com_asset_type,
                                                 xfr_note.body.output.commitment,
                                                 xfr_note.body.proof.commitment_eq_proof)
       IN  verify' = [verify EXCEPT
                !.calls = Append(@, "sigma"),
                !.beta = IF sg.ok THEN sg.beta ELSE None,
                !.lambda = IF sg.ok THEN sg.lambda ELSE None,
                !.pc = IF sg.ok THEN "sigma" ELSE "done",
                !.result = IF sg.ok THEN "none" ELSE "ZKProofVerificationError"]
    /\ UNCHANGED <<mvars, dvars, cvars, pvars, open_record, keys, xpc, draw, gen_err, xfr_note,
                 cs_witness, changed, cstest, opened>>

\* Step 3: verify_eq_committed_vals; with it verify_bar_to_abar_body returns.
VerifyPlonk ==
    /\ verify.pc = "sigma"
    /\ LET res == verify_eq_committed_vals(xfr_note.body.output.commitment,
                                           xfr_note.body.proof.commitment_eq_proof,
                                           xfr_note.body.proof.pc_rescue_commitments_eq_proof,
                                           verify.beta, verify.lambda)
       IN  verify' = [verify EXCEPT
                !.calls = Append(@, "plonk"),
                !.online_inputs = OnlineInputs(xfr_note.body.output.commitment,
                                               xfr_note.body.proof.commitment_eq_proof,
                                               verify.beta, verify.lambda),
                !.pc = IF res = "Ok" /\ verify.mode = "note" THEN "body_ok" ELSE "done",
                !.result = IF res = "Ok" /\ verify.mode = "note" THEN "none" ELSE res]
    /\ UNCHANGED <<mvars, dvars, cvars, pvars, open_record, keys, xpc, draw, gen_err, xfr_note,
                 cs_witness, changed, cstest, opened>>

\* verify_bar_to_abar_note after the body verified: the signature over the
\* serialized body.
VerifySignature ==
    /\ verify.pc = "body_ok"
    /\ verify' = [verify EXCEPT
            !.calls = Append(@, "signature"),
            !.pc = "done",
            !.result = SignatureCheck(xfr_note, verify.key)]
    /\ UNCHANGED <<mvars, dvars, cvars, pvars, open_record, keys, xpc, draw, gen_err, xfr_note,
                 cs_witness, changed, cstest, opened>>

\* test_eq_committed_vals_cs: the online inputs are assembled as the verifier
\* assembles them, one of them may be changed (slot 0: none is), and the
\* constraint system and the PLONK verifier check them.
SlotDeltas == {1, 2}
CheckOnlineInputs ==
    /\ Untouched /\ changed = Unchanged
    /\ \E slot \in 0..Len(cs_public_vars), delta \in SlotDeltas :
        LET zk == xfr_note.body.proof.commitment_eq_proof
            sg == verify_delegated_chaum_pedersen(ProverPointP(open_record), ProverPointQ(open_record),
                                                  xfr_note.body.output.commitment, zk)
            honest == OnlineInputs(xfr_note.body.output.commitment, zk, sg.beta, sg.lambda)
            given == IF slot = 0 THEN honest
                     ELSE [honest EXCEPT ![slot] = CAdd(@, delta)]
        IN  /\ slot = 0 => delta = 1
            /\ cstest' = [slot |-> slot,
                          online_inputs |-> given,
                          cs_ok |-> verify_witness(cs_witness, given),
                          eq_result |-> PlonkCheck(given,
                                             xfr_note.body.proof.pc_rescue_commitments_eq_proof)]
    /\ UNCHANGED <<mvars, dvars, cvars, pvars, open_record, keys, xpc, draw, gen_err, xfr_note,
                 cs_witness, changed, verify, opened>>

\* The holder of a key pair and a decryption key opens the note's output with
\* the note's memo (OpenAnonBlindAssetRecordBuilder::from_abar).
OpenOutput ==
    /\ Untouched
    /\ \E kp \in KeyPairs, dk \in KeyPairs :
        LET r == from_abar(xfr_note.body.output, xfr_note.body.memo, kp, dk)
        IN  opened' = [by |-> kp, dec |-> dk, err |-> r.err, oabar |-> r.oabar]
    /\ UNCHANGED <<mvars, dvars, cvars, pvars, open_record, keys, xpc, draw, gen_err, xfr_note,
                 cs_witness, changed, verify, cstest>>

(***************************************************************************)
(* The decoding of group elements (ristretto.rs, serialization.rs,         *)
(* ed25519/g1.rs).                                                         *)
(***************************************************************************)
\* What a decoding returns: the point, or the kind of its failure.
NoResult == [err |-> "none", point |-> None]
Decoded(p) == [err |-> "Ok", point |-> p]
Failed(kind) == [err |-> kind, point |-> None]

\* RistrettoPoint::from_compressed_bytes: an Option; its None names no error.
ristretto_from_compressed_bytes(bytes) ==
    IF decompress(bytes) = None THEN Failed("None") ELSE Decoded(decompress(bytes))

\* to_from_bytes_group!: zei_from_bytes maps any failure of from_compressed_bytes
\* to ZeiError::SerializationError.
zei_from_bytes(bytes) ==
    IF ristretto_from_compressed_bytes(bytes).err = "Ok"
    THEN ristretto_from_compressed_bytes(bytes)
    ELSE Failed("SerializationError")

\* G1Affine::deserialize reads a compressed point and checks it; the encodings
\* of Ed25519 points are numbered as those of Ristretto points are.
\* G1Affine::deserialize_unchecked checks nothing but that the bytes can be read.
Readable(bytes) == bytes >= 0 /\ bytes \div 2 < QS

\* Ed25519Point::from_compressed_bytes
ed25519_from_compressed_bytes(bytes) ==
    IF ValidEncoding(bytes) THEN Decoded(bytes \div 2) ELSE Failed("DecompressElementError")

\* Ed25519Point::from_unchecked_bytes
ed25519_from_unchecked_bytes(bytes) ==
    IF Readable(bytes) THEN Decoded(bytes \div 2) ELSE Failed("DecompressElementError")

MaxBytes == 39
SampleBytes == (0..MaxBytes) \cup {2 * QS - 2, 2 * QS - 1, 2 * QS, 2 * QS + 1}

DInit == dpc = "start" /\ dbytes \in SampleBytes /\ dpath = "none" /\ dresult = NoResult

Returned(path, result) ==
    /\ dpc' = "done"
    /\ dpath' = path
    /\ dresult' = result
    /\ UNCHANGED <<dbytes, mvars, xvars, cvars, pvars>>

DecodeRistretto ==
    /\ dpc = "start"
    /\ Returned("ristretto_from_compressed_bytes", ristretto_from_compressed_bytes(dbytes))

DecodeZeiFromBytes ==
    /\ dpc = "start"
    /\ Returned("zei_from_bytes", zei_from_bytes(dbytes))

DecodeEd25519Compressed ==
    /\ dpc = "start"
    /\ Returned("ed25519_from_compressed_bytes", ed25519_from_compressed_bytes(dbytes))

DecodeEd25519Unchecked ==
    /\ dpc = "start"
    /\ Returned("ed25519_from_unchecked_bytes", ed25519_from_unchecked_bytes(dbytes))

DNext ==
    \/ DecodeRistretto
    \/ DecodeZeiFromBytes
    \/ DecodeEd25519Compressed
    \/ DecodeEd25519Unchecked

(***************************************************************************)
(* The constraint system on its own (test_eq_committed_vals_cs):           *)
(* build_bar_to_abar_cs is called with given arguments, the online inputs  *)
(* are assembled as verify_eq_committed_vals assembles them, and           *)
(* cs.verify_witness checks the witness against them.                      *)
(***************************************************************************)
SampleX == {0, 1, Pow2(AMOUNT_BITS) - 1, Pow2(AMOUNT_BITS)}
SampleY == {0, 52, Pow2(TYPE_BITS) - 1, Pow2(TYPE_BITS)}
SampleA == {5, QS - 1}
SampleB == {6000}
SampleBeta == {1, 5000, QS - 1}
SampleLambda == {2, 7000}
SamplePubkeyX == {7, 8}
Offsets == {0, 1}

\* The arguments of build_bar_to_abar_cs for a state (x, y, a, b, r) of the sigma
\* protocol's prover and challenges beta and lambda.  With all offsets 0 they
\* are what bar_to_abar passes: the responses s_1 = beta*x + a and
\* s_2 = beta*y + b, the prover's commitment to the state, and x and y lifted
\* to the circuit field as amount and asset type.
CsArgs(x, y, a, b, r, beta, lambda, blind_hash, pubkey_x, off) ==
    [amount |-> CAdd(ToBLS(x), off.amount),
     asset_type |-> CAdd(ToBLS(y), off.asset_type),
     blind_hash |-> blind_hash,
     pubkey_x |-> pubkey_x,
     proof |-> [non_zk_part_state_commitment |-> CAdd(NonZkCommitment(x, y, a, b, r), off.comm),
                s_1 |-> SAdd(SAdd(SMul(beta, x), a), off.s_1),
                s_2 |-> SAdd(SAdd(SMul(beta, y), b), off.s_2)],
     non_zk_state |-> [x |-> x, y |-> y, a |-> a, b |-> b, r |-> r],
     beta |-> beta,
     lambda |-> lambda]

NotBuilt == [witness |-> <<>>, compressed_limbs |-> <<>>, shape |-> <<>>]
NoInputs == [z |-> None, online_inputs |-> <<>>]
NoVerdict ==
    [range |-> FALSE, opening |-> FALSE, sigma |-> FALSE, binding |-> FALSE,
     rescue_comm |-> FALSE, public |-> FALSE, ok |-> FALSE]

CInit ==
    /\ \E x \in SampleX, y \in SampleY, a \in SampleA, b \in SampleB, beta \in SampleBeta,
          lambda \in SampleLambda, pubkey_x \in SamplePubkeyX,
          off \in [amount : Offsets, asset_type : Offsets, comm : Offsets, s_1 : Offsets,
                   s_2 : Offsets] :
            cs_args = CsArgs(x, y, a, b, Rnd(1).r, beta, lambda, Rnd(1).blind, pubkey_x, off)
    /\ cs_pc = "start"
    /\ cs_built = NotBuilt
    /\ cs_inputs = NoInputs
    /\ cs_verdict = NoVerdict

\* The limbs of x, y, a, b in the order build_bar_to_abar_cs merges them (step 3).
AllLimbs(st) == SimFrFrom(st.x) \o SimFrFrom(st.y) \o SimFrFrom(st.a) \o SimFrFrom(st.b)

\* let (mut cs, _) = build_bar_to_abar_cs(...); let witness = cs.get_and_clear_witness();
\* compressed_limbs are the packed values the function computes outside the gates.
BuildCs ==
    /\ cs_pc = "start"
    /\ cs_built' = [witness |-> build_bar_to_abar_cs(cs_args.amount, cs_args.asset_type,
                                                     cs_args.blind_hash, cs_args.pubkey_x,
                                                     cs_args.proof, cs_args.non_zk_state,
                                                     cs_args.beta, cs_args.lambda),
                    compressed_limbs |-> compressed_limbs(AllLimbs(cs_args.non_zk_state)),
                    shape |-> cs_shape(cs_calls(cs_args.proof, cs_args.non_zk_state,
                                                cs_args.beta, cs_args.lambda))]
    /\ cs_pc' = "built"
    /\ UNCHANGED <<cs_args, cs_inputs, cs_verdict, mvars, xvars, dvars, pvars>>

\* z as bar_to_abar computes it, and the online inputs as verify_eq_committed_vals
\* assembles them from z, the sigma proof and the challenges.
AssembleOnlineInputs ==
    /\ cs_pc = "built"
    /\ cs_inputs' =
          [z |-> ProverZ(cs_args.blind_hash, ToBLS(cs_args.non_zk_state.x),
                         ToBLS(cs_args.non_zk_state.y), cs_args.pubkey_x),
           online_inputs |->
               OnlineInputs(ProverZ(cs_args.blind_hash, ToBLS(cs_args.non_zk_state.x),
                                    ToBLS(cs_args.non_zk_state.y), cs_args.pubkey_x),
                            cs_args.proof, cs_args.beta, cs_args.lambda)]
    /\ cs_pc' = "inputs"
    /\ UNCHANGED <<cs_args, cs_built, cs_verdict, mvars, xvars, dvars, pvars>>

\* cs.verify_witness(&witness, &online_inputs), constraint group by constraint group
VerifyWitness ==
    /\ cs_pc = "inputs"
    /\ cs_verdict' = [range |-> RangeGates(cs_built.witness),
                      opening |-> OpeningGates(cs_built.witness),
                      sigma |-> SigmaGate(cs_built.witness),
                      binding |-> BindingGates(cs_built.witness),
                      rescue_comm |-> RescueCommGates(cs_built.witness),
                      public |-> PublicInputsMatch(cs_built.witness, cs_inputs.online_inputs),
                      ok |-> verify_witness(cs_built.witness, cs_inputs.online_inputs)]
    /\ cs_pc' = "checked"
    /\ UNCHANGED <<cs_args, cs_built, cs_inputs, mvars, xvars, dvars, pvars>>

CNext ==
    \/ BuildCs
    \/ AssembleOnlineInputs
    \/ VerifyWitness

(***************************************************************************)
(* The packing of limbs on its own: build_bar_to_abar_cs packs chunks of   *)
(* the limb variables into one field element (step 3) and repacks the six  *)
(* limbs of x and of y (step 6), whatever values the prover assigned to    *)
(* the limbs within their range checks.                                    *)
(***************************************************************************)
LimbValues == 0..(Pow2(BIT_PER_LIMB) - 1)
NotPacked ==
    [chunk5 |-> None, chunk4 |-> None, repacked |-> None, bounded_64 |-> FALSE,
     bounded_240 |-> FALSE]

PInit ==
    /\ pk_limbs \in [1..NUM_OF_LIMBS -> LimbValues]
    /\ pk_pc = "start"
    /\ pk_out = NotPacked

\* Step 3 on a chunk of five limbs (the first four chunks) and on a chunk of
\* four (the last one).
PackChunks ==
    /\ pk_pc = "start"
    /\ pk_out' = [pk_out EXCEPT !.chunk5 = CompressedLimbVar(SubSeq(pk_limbs, 1, 5)),
                                !.chunk4 = CompressedLimbVar(SubSeq(pk_limbs, 1, 4))]
    /\ pk_pc' = "packed"
    /\ UNCHANGED <<pk_limbs, mvars, xvars, dvars, cvars>>

\* Step 6 on six limbs, with the total-bit bounds of the allocations of x and y.
RepackLimbs ==
    /\ pk_pc = "packed"
    /\ pk_out' = [pk_out EXCEPT !.repacked = RepackVar(pk_limbs),
                                !.bounded_64 = BoundedTotalBits(pk_limbs, AMOUNT_BITS),
                                !.bounded_240 = BoundedTotalBits(pk_limbs, TYPE_BITS)]
    /\ pk_pc' = "repacked"
    /\ UNCHANGED <<pk_limbs, mvars, xvars, dvars, cvars>>

PNext ==
    \/ PackChunks
    \/ RepackLimbs

MNext ==
    \/ PippengerStart
    \/ PippengerColumn

\* The part of the state a specification does not use stays as it is.
MIdle ==
    /\ scalars = <<>> /\ elems = <<>> /\ overflow_checks = FALSE /\ mpc = "idle"
    /\ digits_vec = <<>> /\ index = 0 /\ buckets = <<>> /\ col = get_identity
    /\ total = get_identity /\ naive = get_identity

XIdle ==
    /\ open_record = None /\ keys = None /\ xpc = "idle" /\ draw = None /\ gen_err = "none"
    /\ xfr_note = NoNote /\ cs_witness = <<>> /\ changed = Unchanged /\ verify = VerifyIdle
    /\ cstest = CsIdle /\ opened = NotOpened

DIdle == dpc = "idle" /\ dbytes = None /\ dpath = "none" /\ dresult = NoResult

CIdle ==
    /\ cs_args = None /\ cs_pc = "idle" /\ cs_built = NotBuilt /\ cs_inputs = NoInputs
    /\ cs_verdict = NoVerdict

PIdle == pk_limbs = <<>> /\ pk_pc = "idle" /\ pk_out = NotPacked

Init == XInit /\ MIdle /\ DIdle /\ CIdle /\ PIdle

\* The conversion: generation, changes on the way, verification.
Next ==
    \/ GenNote
    \/ ReplaceSignature
    \/ SignAgain
    \/ CorruptEncoding
    \/ ChangeInput
    \/ ChangeOutput
    \/ ChangeProof
    \/ ChangeMemo
    \/ VerifyBegin
    \/ VerifySigma
    \/ VerifyPlonk
    \/ VerifySignature
    \/ CheckOnlineInputs
    \/ OpenOutput

Spec == Init /\ [][Next]_vars

\* The multi-exponentiation.
MultiExpInit == MInit /\ XIdle /\ DIdle /\ CIdle /\ PIdle
SpecMultiExp == MultiExpInit /\ [][MNext]_vars

\* The decoding of group elements.
DecodeInit == DInit /\ MIdle /\ XIdle /\ CIdle /\ PIdle
SpecDecode == DecodeInit /\ [][DNext]_vars

\* The packing of limbs into circuit-field elements.
PackingInit == PInit /\ MIdle /\ XIdle /\ DIdle /\ CIdle
SpecPacking == PackingInit /\ [][PNext]_vars

\* The constraint system on its own.
CircuitInit == CInit /\ MIdle /\ XIdle /\ DIdle /\ PIdle
SpecCircuit == CircuitInit /\ [][CNext]_vars

(***************************************************************************)
(* Properties of the conversion (specification Spec).                      *)
(***************************************************************************)
Body == xfr_note.body
InRange ==
    open_record.amount < Pow2(AMOUNT_BITS) /\ open_record.asset_type < Pow2(TYPE_BITS)
BodyVerified == verify.pc = "done" /\ verify.mode = "body"
NoteVerified == verify.pc = "done" /\ verify.mode = "note"

\* C1: completeness.  For an amount below 2^AMOUNT_BITS and an asset type that
\* fits in TYPE_BITS bits, whatever the blinds, the draws and the destination
\* key, bar_to_abar succeeds and what it returned is accepted by
\* verify_bar_to_abar on the same BAR, whether amount and asset type are
\* confidential or not.
C1_Completeness ==
    /\ (xpc # "init" /\ InRange) => (xpc = "generated" /\ gen_err = "Ok")
    /\ (changed = Unchanged /\ BodyVerified) =>
          /\ verify.result = "Ok"
          /\ verify_bar_to_abar(Body.input, Body.output, Body.proof) = "Ok"

C1_Witness ==
    /\ changed = Unchanged /\ BodyVerified /\ verify.result = "Ok"
    /\ Body.input.amount.conf /\ Body.input.asset_type.conf
    /\ open_record.amount = Pow2(AMOUNT_BITS) - 1
    /\ open_record.asset_type = Pow2(TYPE_BITS) - 1

\* C2: tamper rejection.  The witness and the 26 online inputs the verifier
\* assembles satisfy the constraint system; with any single online input
\* changed and the witness kept, the constraint check fails and the PLONK check
\* of verify_eq_committed_vals returns ZKProofVerificationError.
C2_TamperRejected ==
    cstest.slot # None =>
        /\ Len(cstest.online_inputs) = 26
        /\ cstest.slot = 0 => (cstest.cs_ok /\ cstest.eq_result = "Ok")
        /\ cstest.slot # 0 =>
              (~cstest.cs_ok /\ cstest.eq_result = "ZKProofVerificationError")

C2_Witness ==
    /\ cstest.slot = 26
    /\ ~cstest.cs_ok
    /\ cstest.eq_result = "ZKProofVerificationError"

\* The i-th limb (from 1) of n: BIT_PER_LIMB bits.
LimbOf(n, i) == (n \div Pow2(BIT_PER_LIMB * (i - 1))) % Pow2(BIT_PER_LIMB)

\* C3: the layout of the online inputs.  verify_eq_committed_vals passes 26
\* values to the PLONK verifier: z, the commitment to the non-ZK state, and the
\* six limbs each of beta, lambda, beta*lambda and s_1 + lambda*s_2, in this
\* order, which is the order build_bar_to_abar_cs declares its public inputs in.
C3_OnlineInputLayout ==
    /\ Len(cs_public_vars) = 26
    /\ cs_public_vars[1] = <<"rescue_comm_var", 0>>
    /\ cs_public_vars[2] = <<"comm_var", 0>>
    /\ \A i \in 1..6 :
          /\ cs_public_vars[2 + i] = <<"beta_sim_fr_var", i>>
          /\ cs_public_vars[8 + i] = <<"lambda_sim_fr_var", i>>
          /\ cs_public_vars[14 + i] = <<"beta_lambda_sim_fr_var", i>>
          /\ cs_public_vars[20 + i] = <<"s1_plus_lambda_s2_sim_fr_var", i>>
    /\ "plonk" \in {verify.calls[k] : k \in 1..Len(verify.calls)} =>
          LET oi == verify.online_inputs
              zk == Body.proof.commitment_eq_proof
          IN  /\ Len(oi) = 26
              /\ oi[1] = Body.output.commitment
              /\ oi[2] = zk.non_zk_part_state_commitment
              /\ \A i \in 1..6 :
                    /\ oi[2 + i] = LimbOf(verify.beta, i)
                    /\ oi[8 + i] = LimbOf(verify.lambda, i)
                    /\ oi[14 + i] = LimbOf((verify.beta * verify.lambda) % QS, i)
                    /\ oi[20 + i] = LimbOf((zk.s_1 + verify.lambda * zk.s_2) % QS, i)
              /\ changed.body = "none" =>
                    \A k \in 1..26 : oi[k] = VarValue(cs_witness, cs_public_vars[k])

C3_Witness ==
    /\ verify.pc = "done" /\ verify.result = "Ok" /\ changed.body = "none"
    /\ Len(verify.online_inputs) = 26
    /\ \E i \in 1..6 : verify.online_inputs[2 + i] # verify.online_inputs[8 + i]

SignatureValid(key) == sig_verify(key, serialize(Body), xfr_note.signature)

\* C4: note verification.  verify_bar_to_abar_note returns Ok exactly when the
\* body verifies and the signature is bar_pub_key's over the serialized body; a
\* generated note verifies under the signer's key; with the signature replaced
\* by one over another message it is rejected; a body that does not verify is
\* reported with its own error, the signature not being looked at.
C4_NoteVerification ==
    NoteVerified =>
        /\ verify.result = "Ok"
              <=> (verify_bar_to_abar_body(Body) = "Ok" /\ SignatureValid(verify.key))
        /\ verify.result = verify_bar_to_abar_note(xfr_note, verify.key)
        /\ (changed = Unchanged /\ verify.key = XfrPubKeyOf(keys.bar_keypair))
              => verify.result = "Ok"
        /\ (changed.signature = "replaced" /\ changed.body = "none")
              => verify.result = "SignatureError"
        /\ verify_bar_to_abar_body(Body) # "Ok" =>
              /\ verify.result = verify_bar_to_abar_body(Body)
              /\ verify.calls[Len(verify.calls)] # "signature"

C4_Witness ==
    /\ NoteVerified
    /\ changed = [body |-> "none", signature |-> "replaced"]
    /\ verify.key = XfrPubKeyOf(keys.bar_keypair)
    /\ verify.result = "SignatureError"
    /\ verify.calls = <<"points", "sigma", "plonk", "signature">>

\* A confidential field of the BAR whose bytes decode to no point.
UndecodableField(bar) ==
    \/ bar.amount.conf /\ decompress(bar.amount.low) = None
    \/ bar.amount.conf /\ decompress(bar.amount.high) = None
    \/ bar.asset_type.conf /\ decompress(bar.asset_type.bytes) = None

\* C5: decompression failure.  When a confidential field's bytes decode to no
\* point, verify_bar_to_abar returns DecompressElementError and calls neither
\* the sigma verifier nor the PLONK verifier; with no confidential field the
\* step cannot fail.
C5_DecompressionFailure ==
    verify.calls # <<>> =>
        /\ UndecodableField(Body.input) =>
              /\ verify.pc = "done"
              /\ verify.result = "DecompressElementError"
              /\ verify.calls = <<"points">>
        /\ verify.result = "DecompressElementError" => UndecodableField(Body.input)
        /\ (~Body.input.amount.conf /\ ~Body.input.asset_type.conf)
              => verify.result # "DecompressElementError"

C5_Witness ==
    /\ changed.body = "asset_type"
    /\ verify.pc = "done"
    /\ verify.result = "DecompressElementError"
    /\ verify.calls = <<"points">>

\* C6: the verifier's points are the prover's.  com_amount = com_low +
\* 2^32 * com_high, from the commitments to the halves of the amount (with zero
\* blinds when the amount is in clear), is P = Com(amount, g0 + 2^32 * g1), and
\* the asset type's commitment (Com(y, 0) when in clear) is Q = Com(y, delta).
C6_PointsAgree ==
    (verify.calls # <<>> /\ changed.body \notin {"amount_low", "amount_high", "asset_type", "input"})
    => LET halves == u64_to_u32_pair(open_record.amount)
           g == open_record.amount_blinds
           shift == Pow2(HALF_BITS) % QS
       IN  /\ verify.com_amount = ProverPointP(open_record)
           /\ verify.com_amount
                = commit(open_record.amount % QS, (g[1] + shift * g[2]) % QS)
           /\ verify.com_amount
                = GAdd(commit(halves[1], g[1]), GMul(commit(halves[2], g[2]), shift))
           /\ verify.com_asset_type = ProverPointQ(open_record)
           /\ verify.com_asset_type
                = commit(open_record.asset_type % QS, open_record.type_blind)
           /\ ~Body.input.amount.conf => g = <<0, 0>>
           /\ ~Body.input.asset_type.conf => open_record.type_blind = 0

C6_Witness ==
    /\ verify.pc = "points"
    /\ changed.body = "none"
    /\ Body.input.amount.conf /\ ~Body.input.asset_type.conf
    /\ open_record.amount > TWO_POW_32
    /\ open_record.amount_blinds[2] # 0
    /\ verify.com_amount = ProverPointP(open_record)

\* The opening bar_to_abar builds: the record's amount and asset type, the
\* destination's public key, the blind drawn.
ExpectedOabar ==
    OabarBuild(open_record.amount, open_record.asset_type, AXfrPubKeyOf(keys.abar_keypair),
               XPublicKeyOf(keys.dec_key), Rnd(draw).blind)

\* C9: the body's content.  Its input is the source record's BAR, its output
\* the ABAR of the opening built with the record's amount and asset type and
\* the destination key, its memo that opening's owner memo; the holder of the
\* destination key pair and decryption key opens the output to the amount and
\* asset type of the input.
C9_BodyContent ==
    (xpc = "generated" /\ changed.body = "none") =>
        /\ Body.input = open_record.blind_asset_record
        /\ Body.output = from_oabar(ExpectedOabar)
        /\ Body.memo = ExpectedOabar.owner_memo
        /\ (opened.by = keys.abar_keypair /\ opened.dec = keys.dec_key) =>
              /\ opened.err = "Ok"
              /\ opened.oabar.amount = open_record.amount
              /\ opened.oabar.asset_type = open_record.asset_type

C9_Witness ==
    /\ xpc = "generated" /\ changed.body = "none"
    /\ opened.by = keys.abar_keypair /\ opened.dec = keys.dec_key
    /\ opened.err = "Ok"
    /\ opened.oabar.amount = Pow2(AMOUNT_BITS) - 6
    /\ opened.oabar.asset_type = 52

\* Whether verify_bar_to_abar has made the call of a step.
Called(step) == \E k \in 1..Len(verify.calls) : verify.calls[k] = step

\* What the sigma verifier finds for the note as it stands.
SigmaOfNote ==
    verify_delegated_chaum_pedersen(verify.com_amount, verify.com_asset_type,
                                    Body.output.commitment, Body.proof.commitment_eq_proof)

\* C11: the order of the verification and the errors' kinds.  verify_bar_to_abar
\* reconstructs the points, then calls the sigma verifier, then the PLONK
\* verifier, and stops at the first failure; the PLONK verifier is called only
\* after the sigma verifier succeeded, with the (beta, lambda) it returned; a
\* failure of the PLONK verifier is reported as ZKProofVerificationError, and a
\* failure of the PLONK prover as AXfrProofError.
C11_PipelineOrder ==
    /\ \E n \in 0..4 : verify.calls = SubSeq(<<"points", "sigma", "plonk", "signature">>, 1, n)
    /\ Called("sigma") => ReconstructPoints(Body.input).err = "Ok"
    /\ (verify.pc = "done" /\ verify.calls = <<"points">>)
          => verify.result = "DecompressElementError"
    /\ (verify.pc = "done" /\ verify.calls = <<"points", "sigma">>)
          => (~SigmaOfNote.ok /\ verify.result # "Ok")
    /\ Called("plonk") =>
          /\ SigmaOfNote.ok
          /\ verify.beta = SigmaOfNote.beta
          /\ verify.lambda = SigmaOfNote.lambda
          /\ verify.online_inputs
                = OnlineInputs(Body.output.commitment, Body.proof.commitment_eq_proof,
                               SigmaOfNote.beta, SigmaOfNote.lambda)
          /\ ~verifier(verify.online_inputs, Body.proof.pc_rescue_commitments_eq_proof)
                => /\ verify.pc = "done"
                   /\ verify.result = "ZKProofVerificationError"
                   /\ ~Called("signature")
    /\ xpc # "init" =>
          /\ gen_err = "AXfrProofError" <=> ~prover_with_lagrange(cs_witness).ok
          /\ gen_err \in {"Ok", "AXfrProofError"}
          /\ xpc = "failed" <=> gen_err = "AXfrProofError"

C11_Witness ==
    /\ xpc = "generated"
    /\ changed.body = "plonk_proof"
    /\ verify.pc = "done"
    /\ verify.calls = <<"points", "sigma", "plonk">>
    /\ verify.beta = SigmaOfNote.beta
    /\ verify.result = "ZKProofVerificationError"

\* The note as gen_bar_to_abar_note returned it, before any change.
OriginalNote ==
    gen_bar_to_abar_note(Rnd(draw), open_record, keys.bar_keypair,
                         AXfrPubKeyOf(keys.abar_keypair), XPublicKeyOf(keys.dec_key)).note

\* Other owner memos a body may carry.
MemoVariants ==
    {[Body.memo EXCEPT !.plain[1] = (@ + d) % Pow2(AMOUNT_BITS)] : d \in {1, 2}}
        \cup {[Body.memo EXCEPT !.to = @ + 1]}

\* What C23 says of a note generated as orig whose body, as it stands, has the
\* verification result res.
MemoSignedOnly(orig, res) ==
    /\ res = verify_bar_to_abar(Body.input, Body.output, Body.proof)
    /\ \A m \in MemoVariants : verify_bar_to_abar_body([Body EXCEPT !.memo = m]) = res
    /\ changed.body = "memo" =>
          /\ Body.memo # orig.body.memo
          /\ [Body EXCEPT !.memo = orig.body.memo] = orig.body
          /\ res = verify_bar_to_abar_body(orig.body)
          /\ BodyVerified => verify.result = res
    /\ (changed.body # "none" /\ changed.signature = "none") =>
          /\ xfr_note.signature = orig.signature
          /\ serialize(Body) # serialize(orig.body)
          /\ NoteVerified => verify.result # "Ok"
          /\ (NoteVerified /\ changed.body = "memo") =>
                verify.result = IF res = "Ok" THEN "SignatureError" ELSE res

\* C23: the owner memo is protected only by the signature.  The result of
\* verify_bar_to_abar_body is that of verify_bar_to_abar on the body's input,
\* output and proof, and it is the same with the memo replaced; every change of
\* a body field (input, output, proof or memo) changes the serialized body, and
\* verify_bar_to_abar_note then rejects the note that still carries the
\* signature of its generation: a changed memo alone is reported as
\* SignatureError.
C23_MemoSignedOnly ==
    xpc = "generated" => MemoSignedOnly(OriginalNote, verify_bar_to_abar_body(Body))

C23_Witness ==
    /\ NoteVerified
    /\ changed = [body |-> "memo", signature |-> "none"]
    /\ verify.key = XfrPubKeyOf(keys.bar_keypair)
    /\ verify_bar_to_abar_body(Body) = "Ok"
    /\ verify.calls = <<"points", "sigma", "plonk", "signature">>
    /\ verify.result = "SignatureError"

(***************************************************************************)
(* Properties of the multi-exponentiation (specification SpecMultiExp).    *)
(***************************************************************************)
Returned_or_panicked == mpc \in {"done", "panic"}

\* C7: for a non-empty list of scalars and a list of elements of the same
\* length, vartime_multi_exp returns what naive_multi_exp returns, the sum of
\* scalar_i * point_i.
C7_MultiExpEquivalence ==
    (Returned_or_panicked /\ Len(scalars) > 0 /\ Len(scalars) = Len(elems))
        => (mpc = "done" /\ total = naive)

\* C8: with an empty list of scalars vartime_multi_exp does not fail and
\* returns the identity.
C8_EmptyInputIdentity ==
    (Returned_or_panicked /\ Len(scalars) = 0) => (mpc = "done" /\ total = get_identity)

\* The digit of the j-th scalar at a position (from 0): 0 where the scalar has
\* fewer digits.
DigitAt(j, pos) == IF pos < Len(digits_vec[j]) THEN digits_vec[j][pos + 1] ELSE 0

Pairs == Min(Len(digits_vec), Len(elems))

\* The sum over the inputs of digit_j[pos] * point_j.
RECURSIVE DigitSumBlock(_, _, _, _)
DigitSumBlock(pos, j, hi, acc) ==
    IF j > hi THEN acc
    ELSE DigitSumBlock(pos, j + 1, hi, (((acc + DigitAt(j, pos) * elems[j]) % QS) + QS) % QS)

RECURSIVE DigitSumFrom(_, _, _)
DigitSumFrom(pos, j, acc) ==
    IF j > Pairs THEN acc
    ELSE LET acc2 == DigitSumBlock(pos, j, BlockEnd(j, Pairs), acc)
         IN  IF acc2 \in Points THEN DigitSumFrom(pos, BlockEnd(j, Pairs) + 1, acc2) ELSE acc2

DigitSum(pos) == DigitSumFrom(pos, 1, 0)

\* What bucket i holds when it was emptied before the position's digits were
\* accumulated: the points whose digit is i + 1, minus those whose digit is
\* -(i + 1).
RECURSIVE BucketContent(_, _, _)
BucketContent(i, pos, j) ==
    IF j > Pairs THEN get_identity
    ELSE IF DigitAt(j, pos) = i + 1 THEN GAdd(BucketContent(i, pos, j + 1), elems[j])
    ELSE IF DigitAt(j, pos) = -(i + 1) THEN GSub(BucketContent(i, pos, j + 1), elems[j])
    ELSE BucketContent(i, pos, j + 1)

\* The sum over the buckets of (i + 1) * buckets[i], from bucket i on.
RECURSIVE WeightedBlock(_, _, _)
WeightedBlock(i, hi, acc) ==
    IF i > hi THEN acc ELSE WeightedBlock(i + 1, hi, (acc + (i + 1) * buckets[i]) % QS)

RECURSIVE WeightedFrom(_, _)
WeightedFrom(i, acc) ==
    IF i \notin DOMAIN buckets THEN acc
    ELSE LET hi == Min(i + 31, Cardinality(DOMAIN buckets) - 1)
             acc2 == WeightedBlock(i, hi, acc)
         IN  IF acc2 \in Points THEN WeightedFrom(hi + 1, acc2) ELSE acc2

WeightedBuckets == WeightedFrom(0, 0)

\* The sum over the positions i >= k of 2^(w * (i - k)) * column_i.
RECURSIVE HornerFrom(_, _, _)
HornerFrom(i, k, w) ==
    IF i >= DigitsCount(digits_vec) THEN 0
    ELSE (DigitSum(i) * (Pow2(w * (i - k)) % QS) + HornerFrom(i + 1, k, w)) % QS

\* C18: the column and Horner invariant.  After the column of a digit position
\* the buckets hold that position's digits only (they were emptied first), the
\* column is the sum over the buckets of (i + 1) * buckets[i], which is the sum
\* over the inputs of digit_j[position] * point_j (a scalar with fewer digits
\* contributing nothing), and the running total is the sum over the positions
\* i from the current one up of 2^(w * (i - position)) * column_i.
C18_ColumnHorner ==
    mpc \in {"cols", "done"} =>
        /\ DOMAIN buckets = 0..(Pow2(WindowSize(Len(scalars)) - 1) - 1)
        /\ Len(scalars) < 500 => \A i \in DOMAIN buckets : buckets[i] = BucketContent(i, index, 1)
        /\ col = WeightedBuckets
        /\ col = DigitSum(index)
        /\ total = HornerFrom(index, index, WindowSize(Len(scalars)))
        /\ index < DigitsCount(digits_vec)
        /\ mpc = "done" <=> index = 0

C18_Witness ==
    /\ mpc = "done"
    /\ Len(scalars) = 2 /\ Len(elems) = 2
    /\ Len(digits_vec[1]) = 3 /\ Len(digits_vec[2]) = 1
    /\ DigitAt(1, 0) < 0
    /\ col = DigitSum(0)
    /\ col # total
    /\ total = naive

\* The values of the 8-bit signed type.
I8 == I8_MIN..(-I8_MIN - 1)

\* C20: the bucket index arithmetic stays in range.  For the window size
\* selected and every non-zero digit of every scalar, the digit lies in
\* [-2^(w-1), 2^(w-1)], the index digit - 1 (positive digit) or -digit - 1
\* (negative digit) is computed without leaving the 8-bit signed type, and the
\* index lies in [0, 2^(w-1) - 1], the bounds of the buckets.
C20_BucketIndexInRange ==
    mpc # "start" =>
        \A j \in 1..Len(digits_vec) : \A p \in 1..Len(digits_vec[j]) :
            /\ digits_vec[j][p] \in (-Pow2(WindowSize(Len(scalars)) - 1))
                                       ..Pow2(WindowSize(Len(scalars)) - 1)
            /\ digits_vec[j][p] > 0 =>
                  /\ digits_vec[j][p] - 1 \in I8
                  /\ digits_vec[j][p] - 1 \in DOMAIN InitBuckets(WindowSize(Len(scalars)))
            /\ digits_vec[j][p] < 0 =>
                  /\ ~NegOverflows(digits_vec[j][p])
                  /\ -digits_vec[j][p] \in I8
                  /\ -digits_vec[j][p] - 1 \in I8
                  /\ NegIndex(digits_vec[j][p]) \in DOMAIN InitBuckets(WindowSize(Len(scalars)))

(***************************************************************************)
(* Properties of the decoding (specification SpecDecode).                  *)
(***************************************************************************)
\* Whether the bytes are a valid input of the decoding function called.
ValidBytes ==
    IF dpath = "ed25519_from_unchecked_bytes" THEN Readable(dbytes) ELSE ValidEncoding(dbytes)

\* C10: on every decoding path bytes that are no valid point give
\* DecompressElementError, and valid bytes give the point they encode.
C10_DecodingErrorKind ==
    dpc = "done" =>
        IF ValidBytes THEN dresult = Decoded(dbytes \div 2)
        ELSE dresult.err = "DecompressElementError"

(***************************************************************************)
(* Properties of the constraint system (specification SpecCircuit).        *)
(***************************************************************************)
CsChecked == cs_pc = "checked"

\* The two sides of the sigma equation as integers, from the arguments:
\* beta*x + (beta*lambda)*y + lambda*b and (s_1 + lambda*s_2) - a, the two
\* derived values reduced in the source field.
SigmaRhs ==
    cs_args.beta * cs_args.non_zk_state.x
        + ((cs_args.beta * cs_args.lambda) % QS) * cs_args.non_zk_state.y
        + cs_args.lambda * cs_args.non_zk_state.b

SigmaLhs ==
    ((cs_args.proof.s_1 + cs_args.lambda * cs_args.proof.s_2) % QS) - cs_args.non_zk_state.a

\* The responses are those of the sigma protocol: s_1 = beta*x + a, s_2 = beta*y + b.
HonestResponses ==
    /\ cs_args.proof.s_1 = (cs_args.beta * cs_args.non_zk_state.x + cs_args.non_zk_state.a) % QS
    /\ cs_args.proof.s_2 = (cs_args.beta * cs_args.non_zk_state.y + cs_args.non_zk_state.b) % QS

\* C12: the sigma equation in the circuit.  Step 5 of build_bar_to_abar_cs forms
\* rhs = beta*x + beta*lambda*y + lambda*b and lhs = (s_1 + lambda*s_2) - a from
\* the limb-encoded values and applies enforce_zero to rhs - lhs: it holds
\* exactly when rhs - lhs is a multiple of the source field's modulus, which is
\* the case for the sigma protocol's responses and for no response off by one.
C12_SigmaEquation ==
    CsChecked =>
        /\ SigmaResidue(cs_built.witness) = SigmaRhs - SigmaLhs
        /\ cs_verdict.sigma <=> (SigmaRhs - SigmaLhs) % QS = 0
        /\ cs_verdict.sigma <=> HonestResponses

C12_Witness ==
    /\ CsChecked
    /\ cs_verdict.sigma
    /\ SigmaRhs - SigmaLhs # 0
    /\ cs_args.non_zk_state.x = Pow2(AMOUNT_BITS) - 1
    /\ cs_args.non_zk_state.y = 52

\* The k-th (from 1) of the 24 limbs of x, y, a, b, six limbs each in this
\* order, and zero beyond them.
Limb24(k) ==
    IF k <= 6 THEN LimbOf(cs_args.non_zk_state.x, k)
    ELSE IF k <= 12 THEN LimbOf(cs_args.non_zk_state.y, k - 6)
    ELSE IF k <= 18 THEN LimbOf(cs_args.non_zk_state.a, k - 12)
    ELSE IF k <= 24 THEN LimbOf(cs_args.non_zk_state.b, k - 18)
    ELSE 0

\* L_(g-1): the g-th group of five consecutive limbs, the limb at position i of
\* the group weighted by 2^(BIT_PER_LIMB * i).
PackedGroup(g) ==
    Limb24(5 * g - 4)
        + Limb24(5 * g - 3) * Pow2(BIT_PER_LIMB)
        + Limb24(5 * g - 2) * Pow2(2 * BIT_PER_LIMB)
        + Limb24(5 * g - 1) * Pow2(3 * BIT_PER_LIMB)
        + Limb24(5 * g) * Pow2(4 * BIT_PER_LIMB)

\* Rescue(Rescue(L_0, L_1, L_2, L_3)[0], L_4, r, 0)[0]
OpeningOfGroups ==
    rescue(<<rescue(<<PackedGroup(1), PackedGroup(2), PackedGroup(3), PackedGroup(4)>>)[1],
             PackedGroup(5), cs_args.non_zk_state.r, 0>>)[1]

\* C13: the opening of the commitment to the non-ZK state.  The 24 limbs of x,
\* y, a, b are cut into groups of 5, 5, 5, 5 and 4; the packed values in the
\* circuit are the weighted sums of their groups and equal the values packed
\* outside the circuit; the circuit is satisfied only if comm_var =
\* Rescue(Rescue(L_0, L_1, L_2, L_3)[0], L_4, r, 0)[0].
C13_CommitmentOpening ==
    CsChecked =>
        /\ Len(cs_built.witness.compressed_limbs_var) = 5
        /\ \A g \in 1..5 :
              /\ cs_built.witness.compressed_limbs_var[g] = PackedGroup(g)
              /\ cs_built.compressed_limbs[g] = PackedGroup(g)
        /\ Limb24(25) = 0
        /\ cs_verdict.opening <=> cs_built.witness.comm_var = OpeningOfGroups
        /\ cs_verdict.ok => cs_args.proof.non_zk_part_state_commitment = OpeningOfGroups

C13_Witness ==
    /\ CsChecked
    /\ cs_verdict.ok
    /\ cs_args.non_zk_state.a = QS - 1
    /\ cs_args.non_zk_state.y = Pow2(TYPE_BITS) - 1
    /\ PackedGroup(4) > Pow2(4 * BIT_PER_LIMB)
    /\ PackedGroup(5) # 0

\* The commitment the sigma protocol's prover computes for the state in the
\* arguments, and the first output of the first Rescue call over the packed
\* limbs.
ProverComm ==
    NonZkCommitment(cs_args.non_zk_state.x, cs_args.non_zk_state.y, cs_args.non_zk_state.a,
                    cs_args.non_zk_state.b, cs_args.non_zk_state.r)

FirstStage == rescue(<<PackedGroup(1), PackedGroup(2), PackedGroup(3), PackedGroup(4)>>)[1]

\* C14: the second Rescue stage of the commitment to the non-ZK state.
\* non_zk_part_state_commitment is the first output of a Rescue call on (the
\* first output of the first Rescue call, the fifth packed value L_4, the blind
\* r, 0); this is the value the circuit recomputes as h2_var and compares with
\* comm_var.
C14_SecondRescueStage ==
    CsChecked =>
        /\ ProverComm = rescue(<<FirstStage, PackedGroup(5), cs_args.non_zk_state.r, 0>>)[1]
        /\ cs_built.witness.h2_var = ProverComm
        /\ cs_verdict.opening <=> cs_built.witness.comm_var = ProverComm

C14_Witness ==
    /\ CsChecked
    /\ cs_verdict.opening
    /\ cs_args.proof.non_zk_part_state_commitment = ProverComm
    /\ PackedGroup(5) # 0
    /\ cs_args.non_zk_state.x = 1

\* C14 as stated: the second Rescue call takes (the first output of the first
\* call, the blind r, 0, 0), and this is the value the circuit recomputes and
\* compares with comm_var.
C14_SecondStage_as_stated ==
    CsChecked =>
        /\ ProverComm = rescue(<<FirstStage, cs_args.non_zk_state.r, 0, 0>>)[1]
        /\ cs_built.witness.h2_var = rescue(<<FirstStage, cs_args.non_zk_state.r, 0, 0>>)[1]

\* The sum over the six limbs of v of limb_i * 2^(BIT_PER_LIMB * i), i from 0.
WeightedLimbs(v) ==
    LimbOf(v, 1)
        + LimbOf(v, 2) * Pow2(BIT_PER_LIMB)
        + LimbOf(v, 3) * Pow2(2 * BIT_PER_LIMB)
        + LimbOf(v, 4) * Pow2(3 * BIT_PER_LIMB)
        + LimbOf(v, 5) * Pow2(4 * BIT_PER_LIMB)
        + LimbOf(v, 6) * Pow2(5 * BIT_PER_LIMB)

\* C15: the binding of amount and asset type.  Step 6 holds exactly when
\* amount_var is the weighted sum of the six limbs of x and at_var that of the
\* limbs of y (in the circuit field); in every satisfying assignment they are
\* these sums, and the amount and asset type hashed into the ABAR commitment
\* are the x and y of the sigma equation and of the opening of comm.
C15_AmountBinding ==
    CsChecked =>
        /\ cs_built.witness.x_sim_fr_var = [i \in 1..6 |-> Limb24(i)]
        /\ cs_built.witness.y_sim_fr_var = [i \in 1..6 |-> Limb24(6 + i)]
        /\ cs_verdict.binding
              <=> /\ cs_built.witness.amount_var = WeightedLimbs(cs_args.non_zk_state.x) % QC
                  /\ cs_built.witness.at_var = WeightedLimbs(cs_args.non_zk_state.y) % QC
        /\ cs_verdict.ok =>
              /\ cs_built.witness.amount_var = WeightedLimbs(cs_args.non_zk_state.x)
              /\ cs_built.witness.at_var = WeightedLimbs(cs_args.non_zk_state.y)
              /\ cs_built.witness.amount_var = cs_args.non_zk_state.x
              /\ cs_built.witness.at_var = cs_args.non_zk_state.y
              /\ cs_built.witness.rescue_comm_var
                    = rescue(<<rescue(<<cs_args.blind_hash, cs_args.non_zk_state.x,
                                        cs_args.non_zk_state.y, 0>>)[1],
                               cs_args.pubkey_x, 0, 0>>)[1]
        /\ (cs_args.amount # ToBLS(cs_args.non_zk_state.x)
              \/ cs_args.asset_type # ToBLS(cs_args.non_zk_state.y)) => ~cs_verdict.ok

C15_Witness ==
    /\ CsChecked
    /\ cs_verdict.ok
    /\ cs_built.witness.amount_var = Pow2(AMOUNT_BITS) - 1
    /\ cs_built.witness.at_var = 52

\* z = Rescue(Rescue(blind, x_C, y_C, 0)[0], pubkey_x, 0, 0)[0] for the
\* arguments, x_C and y_C being x and y lifted to the circuit field.
ChainOfArgs ==
    rescue(<<rescue(<<cs_args.blind_hash, cs_args.non_zk_state.x % QC,
                      cs_args.non_zk_state.y % QC, 0>>)[1],
             cs_args.pubkey_x, 0, 0>>)[1]

\* C16: the ABAR commitment chain.  The z that bar_to_abar computes outside the
\* circuit is Rescue(Rescue(blind, x_C, y_C, 0)[0], pubkey_x, 0, 0)[0]; it is
\* the value of rescue_comm_var, built in the circuit from blind_hash_var,
\* amount_var, at_var and pubkey_x_var, when amount and asset type are x and y
\* lifted; rescue_comm_var is the first public input (slot 0) and comm_var the
\* second (slot 1).
C16_AbarCommitmentChain ==
    cs_pc \in {"inputs", "checked"} =>
        /\ cs_inputs.z = ChainOfArgs
        /\ cs_built.witness.rescue_comm_var
              = rescue(<<rescue(<<cs_built.witness.blind_hash_var, cs_built.witness.amount_var,
                                  cs_built.witness.at_var, 0>>)[1],
                         cs_built.witness.pubkey_x_var, 0, 0>>)[1]
        /\ (cs_args.amount = ToBLS(cs_args.non_zk_state.x)
              /\ cs_args.asset_type = ToBLS(cs_args.non_zk_state.y))
              => cs_built.witness.rescue_comm_var = cs_inputs.z
        /\ VarValue(cs_built.witness, cs_public_vars[1]) = cs_built.witness.rescue_comm_var
        /\ VarValue(cs_built.witness, cs_public_vars[2]) = cs_built.witness.comm_var
        /\ cs_inputs.online_inputs[1] = cs_inputs.z
        /\ cs_inputs.online_inputs[2] = cs_args.proof.non_zk_part_state_commitment
        /\ (CsChecked /\ cs_verdict.public) => cs_built.witness.rescue_comm_var = cs_inputs.z

C16_Witness ==
    /\ CsChecked
    /\ cs_verdict.public
    /\ cs_built.witness.rescue_comm_var = cs_inputs.z
    /\ cs_inputs.z # cs_args.proof.non_zk_part_state_commitment
    /\ cs_args.non_zk_state.x = Pow2(AMOUNT_BITS) - 1
    /\ cs_args.non_zk_state.y = Pow2(TYPE_BITS) - 1

\* C17: the range bounds on the committed values.  x is allocated with a bound
\* of AMOUNT_BITS bits on its total and y with a bound of TYPE_BITS bits: a
\* witness with x = 2^AMOUNT_BITS or y = 2^TYPE_BITS does not satisfy the
\* circuit, one with x = 2^AMOUNT_BITS - 1 and y = 2^TYPE_BITS - 1 passes the
\* range constraints; a and b are bounded limb by limb only, so any scalar of
\* the source field passes.
C17_RangeBounds ==
    CsChecked =>
        /\ cs_verdict.range
              <=> /\ cs_args.non_zk_state.x < Pow2(AMOUNT_BITS)
                  /\ cs_args.non_zk_state.y < Pow2(TYPE_BITS)
        /\ cs_args.non_zk_state.x = Pow2(AMOUNT_BITS) => ~cs_verdict.ok
        /\ cs_args.non_zk_state.y = Pow2(TYPE_BITS) => ~cs_verdict.ok
        /\ (cs_args.non_zk_state.x = Pow2(AMOUNT_BITS) - 1
              /\ cs_args.non_zk_state.y = Pow2(TYPE_BITS) - 1) => cs_verdict.range
        /\ LimbsInRange(cs_built.witness.a_sim_fr_var)
        /\ LimbsInRange(cs_built.witness.b_sim_fr_var)
        /\ (cs_verdict.opening /\ cs_verdict.sigma /\ cs_verdict.binding /\ cs_verdict.public)
              => (cs_verdict.ok <=> cs_verdict.range)

C17_Witness ==
    /\ CsChecked
    /\ cs_args.non_zk_state.x = Pow2(AMOUNT_BITS)
    /\ cs_args.non_zk_state.y = Pow2(TYPE_BITS) - 1
    /\ cs_args.non_zk_state.a = QS - 1
    /\ ~cs_verdict.range
    /\ cs_verdict.opening /\ cs_verdict.sigma /\ cs_verdict.binding /\ cs_verdict.public

\* C19: the derived public inputs agree between prover and verifier.  For the
\* same sigma proof, beta and lambda, build_bar_to_abar_cs and
\* verify_eq_committed_vals compute beta*lambda and s_1 + lambda*s_2 in the
\* source field, reduced modulo its order, before cutting them into
\* NUM_OF_LIMBS limbs of BIT_PER_LIMB bits, and obtain the same limbs for beta,
\* lambda, beta*lambda and s_1 + lambda*s_2.
C19_DerivedInputsAgree ==
    cs_pc \in {"inputs", "checked"} =>
        /\ Len(cs_inputs.online_inputs) = 2 + 4 * NUM_OF_LIMBS
        /\ \A i \in 1..NUM_OF_LIMBS :
              /\ cs_built.witness.beta_sim_fr_var[i] = cs_inputs.online_inputs[2 + i]
              /\ cs_built.witness.beta_sim_fr_var[i] = LimbOf(cs_args.beta, i)
              /\ cs_built.witness.lambda_sim_fr_var[i]
                    = cs_inputs.online_inputs[2 + NUM_OF_LIMBS + i]
              /\ cs_built.witness.lambda_sim_fr_var[i] = LimbOf(cs_args.lambda, i)
              /\ cs_built.witness.beta_lambda_sim_fr_var[i]
                    = cs_inputs.online_inputs[2 + 2 * NUM_OF_LIMBS + i]
              /\ cs_built.witness.beta_lambda_sim_fr_var[i]
                    = LimbOf((cs_args.beta * cs_args.lambda) % QS, i)
              /\ cs_built.witness.s1_plus_lambda_s2_sim_fr_var[i]
                    = cs_inputs.online_inputs[2 + 3 * NUM_OF_LIMBS + i]
              /\ cs_built.witness.s1_plus_lambda_s2_sim_fr_var[i]
                    = LimbOf((cs_args.proof.s_1 + cs_args.lambda * cs_args.proof.s_2) % QS, i)

C19_Witness ==
    /\ CsChecked
    /\ cs_verdict.public
    /\ cs_args.beta * cs_args.lambda >= QS
    /\ cs_args.proof.s_1 + cs_args.lambda * cs_args.proof.s_2 >= QS
    /\ \E i \in 1..NUM_OF_LIMBS :
          cs_inputs.online_inputs[2 + 2 * NUM_OF_LIMBS + i]
              # LimbOf(cs_args.beta * cs_args.lambda, i)
    /\ cs_inputs.online_inputs[2 + 3 * NUM_OF_LIMBS + 1]
          = cs_built.witness.s1_plus_lambda_s2_sim_fr_var[1]

CsBuilt == cs_pc \in {"built", "inputs", "checked"}

\* C21: the shape of the circuit does not depend on the values.  Whatever the
\* arguments of build_bar_to_abar_cs, the constraint system has the gates of
\* params.cs in the same order, as many variables, the same 26 positions of
\* public inputs and the same padded size; what differs from one set of
\* arguments to another is the witness.
C21_ShapeIndependent ==
    CsBuilt =>
        /\ cs_built.shape = params_cs
        /\ cs_built.shape.gates = params_cs.gates
        /\ cs_built.shape.n_vars = params_cs.n_vars
        /\ cs_built.shape.public = params_cs.public
        /\ Len(cs_built.shape.public) = 26
        /\ cs_built.shape.public[1] = cs_built.shape.n_vars - 4
        /\ Len(cs_built.shape.public) = Len(cs_public_vars)
        /\ \A i, j \in 1..26 : i < j => cs_built.shape.public[i] # cs_built.shape.public[j]
        /\ cs_built.shape.size = params_cs.size
        /\ \E k \in 0..16 : cs_built.shape.size = Pow2(k)

C21_Witness ==
    /\ CsBuilt
    /\ cs_args.non_zk_state.x = Pow2(AMOUNT_BITS) - 1
    /\ cs_args.non_zk_state.y = Pow2(TYPE_BITS) - 1
    /\ cs_args.non_zk_state.a = QS - 1
    /\ cs_built.witness.a_sim_fr_var[5] # 0
    /\ cs_built.witness.x_sim_fr_var # SimFrFrom(0)
    /\ cs_built.shape = params_cs

(***************************************************************************)
(* Properties of the limb packing (specification SpecPacking).             *)
(***************************************************************************)
Packed == pk_pc \in {"packed", "repacked"}

\* The integers the chunk of five, the chunk of four and the six limbs stand for.
ChunkOf(n) == SimFrValue(SubSeq(pk_limbs, 1, n))

\* C22: limb packing never wraps the circuit field.  With every limb below
\* 2^BIT_PER_LIMB a packed chunk of five limbs is below 2^(5 * BIT_PER_LIMB),
\* and the six limbs of x (total below 2^AMOUNT_BITS) and of y (total below
\* 2^TYPE_BITS) repack to a value below 2^TYPE_BITS, all below the order of the
\* circuit field: the packed value is the integer the limbs stand for, the
\* limbs are read back from it, and the repacked value under its bound is x or
\* y as an integer.
C22_PackingNeverWraps ==
    /\ Pow2(5 * BIT_PER_LIMB) < QC
    /\ Pow2(AMOUNT_BITS) <= Pow2(TYPE_BITS) /\ Pow2(TYPE_BITS) < QC
    /\ Packed =>
          /\ LimbsInRange(pk_limbs)
          /\ ChunkOf(5) < Pow2(5 * BIT_PER_LIMB)
          /\ pk_out.chunk5 = ChunkOf(5)
          /\ pk_out.chunk4 = ChunkOf(4)
          /\ \A i \in 1..5 : LimbOf(pk_out.chunk5, i) = pk_limbs[i]
          /\ \A i \in 1..4 : LimbOf(pk_out.chunk4, i) = pk_limbs[i]
    /\ pk_pc = "repacked" =>
          /\ pk_out.repacked = ChunkOf(NUM_OF_LIMBS) % QC
          /\ pk_out.bounded_64 => pk_out.bounded_240
          /\ pk_out.bounded_64 <=> ChunkOf(NUM_OF_LIMBS) < Pow2(AMOUNT_BITS)
          /\ pk_out.bounded_240 <=> ChunkOf(NUM_OF_LIMBS) < Pow2(TYPE_BITS)
          /\ pk_out.bounded_240 =>
                /\ pk_out.repacked = ChunkOf(NUM_OF_LIMBS)
                /\ pk_out.repacked < Pow2(TYPE_BITS)
                /\ SimFrFrom(pk_out.repacked) = pk_limbs

C22_Witness ==
    /\ pk_pc = "repacked"
    /\ pk_limbs = <<7, 7, 7, 7, 0, 0>>
    /\ pk_out.chunk4 = Pow2(4 * BIT_PER_LIMB) - 1
    /\ pk_out.bounded_240 /\ ~pk_out.bounded_64
    /\ pk_out.repacked = Pow2(TYPE_BITS) - 1

====
